---------------------------- MODULE Spec2Model ----------------------------
(***************************************************************************)
(* Verification model of the webhook relay (ddasy/Vercel5).                *)
(*                                                                         *)
(* The webhook handler (app/main.py, api/index.py), the message filter     *)
(* (app/services/message_filter.py), the exchange client with its retry    *)
(* loop (app/services/okx_api.py) and the error/response helpers are       *)
(* translated operation by operation.  Text is modelled as sequences of    *)
(* one-character strings, JSON values as tagged records.                   *)
(***************************************************************************)
EXTENDS Integers, Sequences, FiniteSets, TLC

VARIABLES
    settings,     \* the cached Settings object (config.py)
    pc,           \* per request: position of the handler coroutine
    body,         \* per request: the raw request body
    sig,          \* per request: the x-vercel-signature header
    sigv,         \* per request: what validate_webhook_signature did
    filt,         \* per request: the tuple filter_message returned
    msg,          \* per request: processed_message
    client,       \* per request: the OKXAPIClient's connection pool
    attempt,      \* per request: loop index of _make_request
    calls,        \* per request: number of client.request calls made
    last,         \* per request: outcome of the client.request the loop body is handling
    sleeps,       \* per request: the asyncio.sleep delays, in order
    fails,        \* per request: attempts that ended in netErr, timeout or http429
    params,       \* the max_retries and retry_delay given to _make_request
    fwd,          \* per request: how forward_message ended
    resp,         \* per request: the JSONResponse returned
    call,         \* the function applied by the function-level specifications
    ret,          \* and its result
    error_counts, \* error_handler.error_counts, an absent key read as 0
    classified,   \* per error type: the classifications handle_error has made
    alerts,       \* per error type: the critical alerts logged
    tasks,        \* per task that classifies an error: its position
    headers,      \* per request: the local `headers` of _make_request
    sent          \* per request: the client.request calls, with the headers each carried

vars == <<settings, pc, body, sig, sigv, filt, msg, client, attempt, calls,
          last, sleeps, fails, params, fwd, resp, call, ret,
          error_counts, classified, alerts, tasks, headers, sent>>

\* the state of the ErrorHandler singleton
evars == <<error_counts, classified, alerts>>

-----------------------------------------------------------------------------
(* Text: a Python str is a sequence of one-character strings.              *)

Digits == {"0", "1", "2", "3", "4", "5", "6", "7", "8", "9"}

LowerLetters ==
    {"a", "b", "c", "d", "e", "f", "g", "h", "i", "j", "k", "l", "m",
     "n", "o", "p", "q", "r", "s", "t", "u", "v", "w", "x", "y", "z"}

UpperLetters ==
    {"A", "B", "C", "D", "E", "F", "G", "H", "I", "J", "K", "L", "M",
     "N", "O", "P", "Q", "R", "S", "T", "U", "V", "W", "X", "Y", "Z"}

LowerOf ==
    [c \in UpperLetters |->
        CASE c = "A" -> "a" [] c = "B" -> "b" [] c = "C" -> "c" [] c = "D" -> "d"
          [] c = "E" -> "e" [] c = "F" -> "f" [] c = "G" -> "g" [] c = "H" -> "h"
          [] c = "I" -> "i" [] c = "J" -> "j" [] c = "K" -> "k" [] c = "L" -> "l"
          [] c = "M" -> "m" [] c = "N" -> "n" [] c = "O" -> "o" [] c = "P" -> "p"
          [] c = "Q" -> "q" [] c = "R" -> "r" [] c = "S" -> "s" [] c = "T" -> "t"
          [] c = "U" -> "u" [] c = "V" -> "v" [] c = "W" -> "w" [] c = "X" -> "x"
          [] c = "Y" -> "y" [] c = "Z" -> "z"]

\* str.lower()
lower(s) == [i \in 1..Len(s) |-> IF s[i] \in UpperLetters THEN LowerOf[s[i]] ELSE s[i]]

\* needle in haystack
Contains(haystack, needle) ==
    \E i \in 0..(Len(haystack) - Len(needle)) :
        \A j \in 1..Len(needle) : haystack[i + j] = needle[j]

\* c * n
Repeat(c, n) == [i \in 1..n |-> c]

\* the concatenation of pieces[lo], ..., pieces[hi]
RECURSIVE ConcatRange(_, _, _)
ConcatRange(pieces, lo, hi) ==
    IF lo > hi THEN <<>>
    ELSE IF lo = hi THEN pieces[lo]
    ELSE LET mid == (lo + hi) \div 2
         IN ConcatRange(pieces, lo, mid) \o ConcatRange(pieces, mid + 1, hi)

Max(a, b) == IF a >= b THEN a ELSE b

RECURSIVE Join(_, _)
Join(sep, ss) ==
    IF ss = <<>> THEN <<>>
    ELSE IF Len(ss) = 1 THEN ss[1]
    ELSE ss[1] \o sep \o Join(sep, Tail(ss))

-----------------------------------------------------------------------------
(* JSON values (the `Any` of WebhookMessage.content) as tagged records.    *)

JBlank == [tag |-> "null", b |-> FALSE, n |-> 0, s |-> <<>>, elems |-> <<>>, pairs |-> <<>>]
JNull == JBlank
JBool(v) == [JBlank EXCEPT !.tag = "bool", !.b = v]
JNum(v) == [JBlank EXCEPT !.tag = "num", !.n = v]
JStr(v) == [JBlank EXCEPT !.tag = "str", !.s = v]
JArr(vs) == [JBlank EXCEPT !.tag = "arr", !.elems = vs]
\* a dict keeps insertion order: a sequence of [k |-> key text, v |-> value]
JObj(kvs) == [JBlank EXCEPT !.tag = "obj", !.pairs = kvs]
KV(k, v) == [k |-> k, v |-> v]

\* key in content
HasKey(content, key) == \E i \in 1..Len(content.pairs) : content.pairs[i].k = key

\* content.get(key): the value, None when absent
Get(content, key) ==
    IF HasKey(content, key)
    THEN content.pairs[CHOOSE i \in 1..Len(content.pairs) : content.pairs[i].k = key].v
    ELSE JNull

\* Python truthiness of a JSON value
Truthy(v) ==
    CASE v.tag = "null" -> FALSE
      [] v.tag = "bool" -> v.b
      [] v.tag = "num" -> v.n # 0
      [] v.tag = "str" -> v.s # <<>>
      [] v.tag = "arr" -> v.elems # <<>>
      [] v.tag = "obj" -> v.pairs # <<>>

DigitOf == [d \in 0..9 |-> CASE d = 0 -> "0" [] d = 1 -> "1" [] d = 2 -> "2"
                             [] d = 3 -> "3" [] d = 4 -> "4" [] d = 5 -> "5"
                             [] d = 6 -> "6" [] d = 7 -> "7" [] d = 8 -> "8"
                             [] d = 9 -> "9"]

RECURSIVE NatStr(_)
NatStr(n) == IF n < 10 THEN <<DigitOf[n]>> ELSE NatStr(n \div 10) \o <<DigitOf[n % 10]>>

IntStr(n) == IF n < 0 THEN <<"-">> \o NatStr(0 - n) ELSE NatStr(n)

\* repr() of a str without quote characters in it
StrRepr(s) == <<"'">> \o s \o <<"'">>

\* repr() of a JSON value, as str(dict) and str(list) print their members
RECURSIVE Repr(_)
Repr(v) ==
    CASE v.tag = "null" -> <<"N", "o", "n", "e">>
      [] v.tag = "bool" -> IF v.b THEN <<"T", "r", "u", "e">> ELSE <<"F", "a", "l", "s", "e">>
      [] v.tag = "num" -> IntStr(v.n)
      [] v.tag = "str" -> StrRepr(v.s)
      [] v.tag = "arr" ->
            <<"[">> \o Join(<<",", " ">>, [i \in 1..Len(v.elems) |-> Repr(v.elems[i])]) \o <<"]">>
      [] v.tag = "obj" ->
            <<"{">> \o Join(<<",", " ">>,
                            [i \in 1..Len(v.pairs) |->
                                StrRepr(v.pairs[i].k) \o <<":", " ">> \o Repr(v.pairs[i].v)])
                    \o <<"}">>

\* str(content)
PyStr(v) == IF v.tag = "str" THEN v.s ELSE Repr(v)

-----------------------------------------------------------------------------
(* app/models.py and app/services/message_filter.py                        *)

\* WebhookMessage: sender is text, content a JSON value, timestamp a
\* datetime: seconds on the process clock, naive or timezone-aware
Timestamp(t, aware) == [t |-> t, aware |-> aware]
WebhookMessage(sender, content, timestamp) ==
    [sender |-> sender, content |-> content, timestamp |-> timestamp]

\* the None in the place of a message
NoMessage == [sender |-> <<"<", "N", "o", "n", "e", ">">>, content |-> JNull,
              timestamp |-> Timestamp(0 - 1, FALSE)]

max_message_age_minutes == 5
max_content_length == 1000
SecondsPerMinute == 60

blocked_keywords ==
    << <<"p", "a", "s", "s", "w", "o", "r", "d">>,
       <<"s", "e", "c", "r", "e", "t">>,
       <<"k", "e", "y">>,
       <<"t", "o", "k", "e", "n">>,
       <<"c", "r", "e", "d", "e", "n", "t", "i", "a", "l">> >>

required_fields == <<"sender", "content">>

REDACTED == <<"[", "R", "E", "D", "A", "C", "T", "E", "D", "]">>

\* not getattr(message, field)
FieldFalsy(message, field) ==
    IF field = "sender" THEN message.sender = <<>> ELSE ~Truthy(message.content)

\* validate_timestamp: "raise" is the TypeError of subtracting an aware
\* datetime from the naive datetime.now()
validate_timestamp(timestamp, now) ==
    IF timestamp.aware THEN "raise"
    ELSE IF now - timestamp.t <= max_message_age_minutes * SecondsPerMinute THEN "true"
    ELSE "false"

\* contains_sensitive_info without content.lower()
contains_sensitive_info_cased(content) ==
    \E i \in 1..Len(blocked_keywords) : Contains(content, lower(blocked_keywords[i]))

contains_sensitive_info(content) ==
    \E i \in 1..Len(blocked_keywords) : Contains(lower(content), lower(blocked_keywords[i]))

\* Characters outside ASCII are named by their code point; each name is one
\* character of the text: ARABIC-INDIC DIGIT ONE, a decimal digit, and
\* LATIN SMALL LETTER E WITH ACUTE, a letter
UnicodeDigits == {"U+0661"}
UnicodeLetters == {"U+00E9"}

\* \d of the re module on a str pattern: any Unicode decimal digit
IsDigit(c) == c \in Digits \cup UnicodeDigits
\* \w of the re module on a str pattern
IsWordChar(c) ==
    \/ IsDigit(c)
    \/ c \in LowerLetters \cup UpperLetters \cup UnicodeLetters \cup {"_"}
\* [a-zA-Z0-9_-]
IsTokenChar(c) == c \in Digits \cup LowerLetters \cup UpperLetters \cup {"_", "-"}

DigitsAt(s, p, n) == p + n - 1 <= Len(s) /\ \A i \in p..(p + n - 1) : IsDigit(s[i])
\* position after an optional [- ] at p
SkipSep(s, p) == IF p <= Len(s) /\ s[p] \in {"-", " "} THEN p + 1 ELSE p

\* \b\d{4}[- ]?\d{4}[- ]?\d{4}[- ]?\d{4}\b matched at p: index of the last
\* matched character, 0 when there is no match at p
CardMatchEnd(s, p) ==
    LET g2 == SkipSep(s, p + 4)
        g3 == SkipSep(s, g2 + 4)
        g4 == SkipSep(s, g3 + 4)
        e == g4 + 3
    IN IF /\ (p = 1 \/ ~IsWordChar(s[p - 1]))
          /\ DigitsAt(s, p, 4)
          /\ DigitsAt(s, g2, 4)
          /\ DigitsAt(s, g3, 4)
          /\ DigitsAt(s, g4, 4)
          /\ (e = Len(s) \/ ~IsWordChar(s[e + 1]))
       THEN e ELSE 0

\* the longest text the card pattern matches: 16 digits, 3 separators
CardMaxLen == 19

\* re.sub scans from the left and resumes after each match: the match at
\* p is replaced unless a replaced match to its left runs over p
RECURSIVE CardReplaced(_, _)
CardReplaced(s, p) ==
    /\ CardMatchEnd(s, p) > 0
    /\ ~\E q \in Max(1, p - CardMaxLen + 1)..(p - 1) :
            CardMatchEnd(s, q) >= p /\ CardReplaced(s, q)

\* re.sub(r'\b\d{4}[- ]?\d{4}[- ]?\d{4}[- ]?\d{4}\b', '[REDACTED]', s)
SubCard(s) ==
    LET piece == [p \in 1..Len(s) |->
                    IF CardReplaced(s, p) THEN REDACTED
                    ELSE IF \E q \in Max(1, p - CardMaxLen + 1)..(p - 1) :
                                CardMatchEnd(s, q) >= p /\ CardReplaced(s, q)
                    THEN <<>>
                    ELSE <<s[p]>>]
    IN ConcatRange(piece, 1, Len(s))

TokenMinLen == 32

\* p lies in a run of at least TokenMinLen token characters
InLongRun(s, p) ==
    \E b \in Max(1, p - TokenMinLen + 1)..p :
        /\ b + TokenMinLen - 1 <= Len(s)
        /\ \A i \in b..(b + TokenMinLen - 1) : IsTokenChar(s[i])

\* re.sub(r'[a-zA-Z0-9_-]{32,}', '[REDACTED]', s): the quantifier is
\* greedy, so each maximal run of 32 or more token characters is one match
SubToken(s) ==
    LET piece == [p \in 1..Len(s) |->
                    IF ~InLongRun(s, p) THEN <<s[p]>>
                    ELSE IF p = 1 \/ ~IsTokenChar(s[p - 1]) THEN REDACTED
                    ELSE <<>>]
    IN ConcatRange(piece, 1, Len(s))

SanitizeStr(s) == SubToken(SubCard(s))

RECURSIVE sanitize_content(_)
sanitize_content(content) ==
    CASE content.tag = "str" -> JStr(SanitizeStr(content.s))
      [] content.tag = "obj" ->
            JObj([i \in 1..Len(content.pairs) |->
                    KV(content.pairs[i].k, sanitize_content(content.pairs[i].v))])
      [] content.tag = "arr" ->
            JArr([i \in 1..Len(content.elems) |-> sanitize_content(content.elems[i])])
      [] OTHER -> content

\* the first required field that is falsy, 0 when none is
FirstMissing(message) ==
    IF \E i \in 1..Len(required_fields) : FieldFalsy(message, required_fields[i])
    THEN CHOOSE i \in 1..Len(required_fields) :
            /\ FieldFalsy(message, required_fields[i])
            /\ \A j \in 1..(i - 1) : ~FieldFalsy(message, required_fields[j])
    ELSE 0

\* validate_message_format with the timestamp checked before the length
validate_message_format_fresh_first(message, now) ==
    LET miss == FirstMissing(message)
        fresh == validate_timestamp(message.timestamp, now)
    IN IF miss # 0
       THEN [ok |-> FALSE, reason |-> "Missing required field", field |-> required_fields[miss]]
       ELSE IF fresh = "raise"
       THEN [ok |-> FALSE, reason |-> "Invalid message format", field |-> ""]
       ELSE IF fresh = "false"
       THEN [ok |-> FALSE, reason |-> "Message is too old", field |-> ""]
       ELSE IF message.content.tag = "str" /\ Len(message.content.s) > max_content_length
       THEN [ok |-> FALSE, reason |-> "Content exceeds maximum length", field |-> ""]
       ELSE [ok |-> TRUE, reason |-> "", field |-> ""]

\* validate_message_format -> (ok, reason); the reason "Missing required
\* field: <field>" is kept as the pair of its prefix and the field
validate_message_format(message, now) ==
    LET miss == FirstMissing(message)
        fresh == validate_timestamp(message.timestamp, now)
    IN IF miss # 0
       THEN [ok |-> FALSE, reason |-> "Missing required field", field |-> required_fields[miss]]
       ELSE IF message.content.tag = "str" /\ Len(message.content.s) > max_content_length
       THEN [ok |-> FALSE, reason |-> "Content exceeds maximum length", field |-> ""]
       ELSE IF fresh = "raise"
       THEN [ok |-> FALSE, reason |-> "Invalid message format", field |-> ""]
       ELSE IF fresh = "false"
       THEN [ok |-> FALSE, reason |-> "Message is too old", field |-> ""]
       ELSE [ok |-> TRUE, reason |-> "", field |-> ""]

\* filter_message -> (is_valid, error_message, processed_message)
filter_message(message, now) ==
    LET fmt == validate_message_format(message, now)
    IN IF ~fmt.ok
       THEN [valid |-> FALSE, reason |-> fmt.reason, field |-> fmt.field, message |-> NoMessage]
       ELSE IF contains_sensitive_info(PyStr(message.content))
       THEN [valid |-> FALSE, reason |-> "Message contains sensitive information",
             field |-> "", message |-> NoMessage]
       ELSE [valid |-> TRUE, reason |-> "", field |-> "",
             message |-> WebhookMessage(message.sender,
                                        sanitize_content(message.content),
                                        message.timestamp)]

-----------------------------------------------------------------------------
(* app/services/okx_api.py                                                 *)

K_instId == <<"i", "n", "s", "t", "I", "d">>
K_side == <<"s", "i", "d", "e">>
K_sz == <<"s", "z">>
K_type == <<"t", "y", "p", "e">>
S_market_data == <<"m", "a", "r", "k", "e", "t", "_", "d", "a", "t", "a">>
S_BTC_USDT == <<"B", "T", "C", "-", "U", "S", "D", "T">>

OrderKeys == <<K_instId, K_side, K_sz>>

\* _determine_endpoint with any() in the place of all()
determine_endpoint_any(content) ==
    IF content.tag = "obj" /\ \E i \in 1..Len(OrderKeys) : HasKey(content, OrderKeys[i])
    THEN [endpoint |-> "trade/order", data |-> content]
    ELSE IF /\ content.tag = "obj"
            /\ HasKey(content, K_instId)
            /\ Get(content, K_type) = JStr(S_market_data)
    THEN [endpoint |-> "market/ticker",
          data |-> JObj(<<KV(K_instId, Get(content, K_instId))>>)]
    ELSE [endpoint |-> "market/tickers", data |-> JObj(<<KV(K_instId, JStr(S_BTC_USDT))>>)]

\* _determine_endpoint -> (endpoint, base_data)
determine_endpoint(content) ==
    IF content.tag = "obj" /\ \A i \in 1..Len(OrderKeys) : HasKey(content, OrderKeys[i])
    THEN [endpoint |-> "trade/order", data |-> content]
    ELSE IF /\ content.tag = "obj"
            /\ HasKey(content, K_instId)
            /\ Get(content, K_type) = JStr(S_market_data)
    THEN [endpoint |-> "market/ticker",
          data |-> JObj(<<KV(K_instId, Get(content, K_instId))>>)]
    ELSE [endpoint |-> "market/tickers", data |-> JObj(<<KV(K_instId, JStr(S_BTC_USDT))>>)]

\* defaults of _make_request
max_retries == 3
retry_delay == 1

\* What one await of client.request, raise_for_status and response.json
\* can give:
\*   ok       2xx, body with code "0"
\*   applErr  2xx, body with another code
\*   http429  HTTPStatusError, status 429
\*   httpErr  HTTPStatusError, any other status
\*   netErr   httpx.NetworkError
\*   timeout  httpx.TimeoutException or any other exception of the call
Outcomes == {"ok", "applErr", "http429", "httpErr", "netErr", "timeout"}

\* the failures the retry policy names: network, transport and rate limit
RetryableFailures == {"netErr", "timeout", "http429"}

\* the except clause of _make_request that handles the outcome; the
\* OKXAPIError raised inside the try for a non-zero code is an Exception
ExceptClause(outcome) ==
    CASE outcome = "ok" -> "none"
      [] outcome \in {"http429", "httpErr"} -> "HTTPStatusError"
      [] outcome = "netErr" -> "NetworkError"
      [] OTHER -> "Exception"

\* WillRetry with a rate limit handled like any other HTTP error
WillRetryNot429(att, outcome, maxr) ==
    /\ att < maxr - 1
    /\ ExceptClause(outcome) \in {"NetworkError", "Exception"}

\* WillRetry with the last attempt retried as well
WillRetryOnLast(att, outcome, maxr) ==
    /\ att < maxr
    /\ \/ outcome = "http429"
       \/ ExceptClause(outcome) \in {"NetworkError", "Exception"}

\* WillRetry with every HTTP status error retried
WillRetryAnyStatus(att, outcome, maxr) ==
    /\ att < maxr - 1
    /\ ExceptClause(outcome) \in {"HTTPStatusError", "NetworkError", "Exception"}

\* whether the clause that caught the outcome sleeps and continues
WillRetry(att, outcome, maxr) ==
    /\ att < maxr - 1
    /\ \/ outcome = "http429"
       \/ ExceptClause(outcome) \in {"NetworkError", "Exception"}

\* Backoff growing linearly
BackoffLinear(att, delay) == delay * (att + 1)

\* retry_delay * (2 ** attempt)
Backoff(att, delay) == delay * (2 ^ att)

\* the message prefix of the OKXAPIError a failed attempt raises
RaisedError(outcome) ==
    CASE ExceptClause(outcome) = "HTTPStatusError" -> "HTTP error"
      [] ExceptClause(outcome) = "NetworkError" -> "Network error"
      [] OTHER -> "Request failed"

\* one iteration of the loop body: return, sleep and continue, or raise
AfterAttempt(att, outcome, maxr) ==
    IF outcome = "ok" THEN [do |-> "return", err |-> ""]
    ELSE IF WillRetry(att, outcome, maxr) THEN [do |-> "sleep", err |-> ""]
    ELSE [do |-> "raise", err |-> RaisedError(outcome)]

-----------------------------------------------------------------------------
(* app/services/error_handler.py, app/services/response_handler.py         *)

\* The exception classes: WebhookError and its four subclasses, the
\* OKXAPIError of okx_api.py, and two that are none of them
ErrorClasses ==
    {"ValidationError", "NetworkError", "APIError", "SecurityError", "WebhookError",
     "OKXAPIError", "httpx.NetworkError", "ValueError"}

MappedErrors == {"ValidationError", "NetworkError", "APIError", "SecurityError"}

\* isinstance(error, type) for an error of class cls
isinstance(cls, type) ==
    \/ type = cls
    \/ type = "WebhookError" /\ cls \in MappedErrors
    \/ type = "Exception"

error_threshold == 5

\* error_mapping with the status codes of NetworkError and APIError exchanged
error_mapping_exchanged ==
    << [type |-> "ValidationError", status_code |-> 400],
       [type |-> "NetworkError", status_code |-> 502],
       [type |-> "APIError", status_code |-> 503],
       [type |-> "SecurityError", status_code |-> 401] >>

\* error_mapping, in the order of the dict
error_mapping ==
    << [type |-> "ValidationError", status_code |-> 400],
       [type |-> "NetworkError", status_code |-> 503],
       [type |-> "APIError", status_code |-> 502],
       [type |-> "SecurityError", status_code |-> 401] >>

\* the index of the first entry of error_mapping the error is an instance
\* of, 0 when it is an instance of none
FirstMapped(cls) ==
    IF \E i \in 1..Len(error_mapping) : isinstance(cls, error_mapping[i].type)
    THEN CHOOSE i \in 1..Len(error_mapping) :
            /\ isinstance(cls, error_mapping[i].type)
            /\ \A j \in 1..(i - 1) : ~isinstance(cls, error_mapping[j].type)
    ELSE 0

\* an error: its class and its message
Error(cls, message) == [cls |-> cls, message |-> message]

\* HTTPException(status_code, detail) without the timestamp of the detail
HTTPException(status_code, error, message, context) ==
    [status_code |-> status_code, error |-> error, message |-> message, context |-> context]

\* the HTTPException handle_error returns; `context or {}` makes None the
\* empty dict, and the detail of an unexpected error has no context
handle_error(error, context) ==
    LET i == FirstMapped(error.cls)
    IN IF i # 0
       THEN HTTPException(error_mapping[i].status_code, error_mapping[i].type, error.message,
                          IF context = "None" THEN "{}" ELSE context)
       ELSE HTTPException(500, "InternalServerError", "An unexpected error occurred", "absent")

\* _increment_error_count without the reset at the threshold
increment_error_count_no_reset(counts, error_type) ==
    LET n == counts[error_type] + 1
    IN [counts |-> [counts EXCEPT ![error_type] = n], alert |-> n >= error_threshold]

\* _increment_error_count with > in the place of >=
increment_error_count_late(counts, error_type) ==
    LET n == counts[error_type] + 1
    IN IF n > error_threshold
       THEN [counts |-> [counts EXCEPT ![error_type] = 0], alert |-> TRUE]
       ELSE [counts |-> [counts EXCEPT ![error_type] = n], alert |-> FALSE]

\* _increment_error_count: the counts after it and whether it alerted
increment_error_count(counts, error_type) ==
    LET n == counts[error_type] + 1
    IN IF n >= error_threshold
       THEN [counts |-> [counts EXCEPT ![error_type] = 0], alert |-> TRUE]
       ELSE [counts |-> [counts EXCEPT ![error_type] = n], alert |-> FALSE]

\* the kinds handle_error classifies an error as
ErrorKinds == MappedErrors \cup {"InternalServerError"}

\* the kind handle_error classifies an error of class cls as
KindOf(cls) ==
    LET i == FirstMapped(cls)
    IN IF i # 0 THEN error_mapping[i].type ELSE "InternalServerError"

\* whether handle_error calls _increment_error_count for a kind that counted
\* every classification
CountsAny(kind) == TRUE

\* whether handle_error calls _increment_error_count for an error of the
\* kind: in the branch of a mapped type only
Counts(kind) == kind \in MappedErrors

\* error_handler = ErrorHandler()
NoErrors ==
    /\ error_counts = [t \in ErrorKinds |-> 0]
    /\ classified = [t \in ErrorKinds |-> 0]
    /\ alerts = [t \in ErrorKinds |-> 0]

\* what one call of handle_error on an error of class cls does to the
\* ErrorHandler; handle_error has no await, so no other task runs within it
Classify(cls) ==
    LET kind == KindOf(cls)
        inc == increment_error_count(error_counts, kind)
    IN /\ classified' = [classified EXCEPT ![kind] = @ + 1]
       /\ IF Counts(kind)
          THEN /\ error_counts' = inc.counts
               /\ alerts' = [alerts EXCEPT ![kind] = IF inc.alert THEN @ + 1 ELSE @]
          ELSE UNCHANGED <<error_counts, alerts>>

\* recover_from_error that recovers network errors only
recover_from_error_network_only(kind) ==
    IF isinstance(kind, "NetworkError") THEN "cached" ELSE "none"

\* recover_from_error, by the class of the error it is given
recover_from_error(kind) ==
    IF isinstance(kind, "NetworkError") THEN "cached"
    ELSE IF isinstance(kind, "APIError") THEN "fallback"
    ELSE "none"

S_unknown == <<"u", "n", "k", "n", "o", "w", "n">>

sensitive_fields ==
    << <<"k", "e", "y">>,
       <<"s", "e", "c", "r", "e", "t">>,
       <<"p", "a", "s", "s", "w", "o", "r", "d">>,
       <<"t", "o", "k", "e", "n">>,
       <<"c", "r", "e", "d", "e", "n", "t", "i", "a", "l">>,
       <<"a", "p", "i", "K", "e", "y">>,
       <<"s", "e", "c", "r", "e", "t", "K", "e", "y">>,
       <<"p", "a", "s", "s", "p", "h", "r", "a", "s", "e">> >>

\* any(sensitive in key.lower() for sensitive in self.sensitive_fields)
IsSensitiveField(key) ==
    \E i \in 1..Len(sensitive_fields) : Contains(lower(key), sensitive_fields[i])

\* sanitize_response(response) for a dict: a dict value is sanitized, of a
\* list value the items that are dicts, everything else is kept
RECURSIVE sanitize_response(_)
sanitize_response(response) ==
    JObj([i \in 1..Len(response.pairs) |->
            LET key == response.pairs[i].k
                value == response.pairs[i].v
            IN KV(key,
                  IF IsSensitiveField(key) THEN JStr(REDACTED)
                  ELSE IF value.tag = "obj" THEN sanitize_response(value)
                  ELSE IF value.tag = "arr"
                  THEN JArr([j \in 1..Len(value.elems) |->
                                IF value.elems[j].tag = "obj"
                                THEN sanitize_response(value.elems[j])
                                ELSE value.elems[j]])
                  ELSE value)])

\* hash() of a str: salted per process (PYTHONHASHSEED), kept symbolic: two
\* hashes are equal exactly when the text and the salt of the process are
hash(text, salt) == [text |-> text, salt |-> salt]

\* The dict format_response returns when the clock of the process reads
\* now: current_time is datetime.now().isoformat(), kept as the clock
\* reading; the request_id is str(hash(f"{current_time}"))
ResponseEnvelope(message, okx_response, success, error, now, salt) ==
    [timestamp |-> now,
     request_id |-> hash(now, salt),
     status |-> IF success THEN "success" ELSE "error",
     sender |-> IF message = NoMessage THEN S_unknown ELSE message.sender,
     processing_result |-> [success |-> success, error_message |-> error],
     okx_response |-> IF Truthy(okx_response) THEN sanitize_response(okx_response) ELSE JNull]

\* a JSONResponse: the status code, the "status" and the "detail" or
\* "error_message" of its content, what "okx_response" carries, and in exc
\* the str(e) of an exception that was put into the content
Response(code, status, detail, okx) ==
    [code |-> code, status |-> status, detail |-> detail, okx |-> okx, exc |-> ""]

\* the response with str(e) formatted into its error message
WithException(response, exc) == [response EXCEPT !.exc = exc]

NoResponse == Response(0, "", "", "none")

\* format_response, wrapped in the JSONResponse of the given code
format_response(code, okx, success, error) ==
    Response(code, IF success THEN "success" ELSE "error", error, okx)

-----------------------------------------------------------------------------
(* app/main.py (api/index.py holds the same handler)                       *)

\* The hex HMAC-SHA1 of a body under a key, kept symbolic: two digests are
\* equal exactly when key and body are.  A header is absent, empty, text
\* with a non-ASCII character, or some other hex text.
Header(kind, key, raw) == [kind |-> kind, key |-> key, raw |-> raw]
NoHeader == Header("absent", "", "")
EmptyHeader == Header("empty", "", "")
NonAsciiHeader == Header("nonascii", "", "")
hexdigest(key, raw) == Header("hex", key, raw)

\* validate_webhook_signature: "true", "false", or "raise" for the
\* UnicodeDecodeError of body.decode and the TypeError of compare_digest
\* on a str with a non-ASCII character
validate_webhook_signature(secret, signature, rawbody) ==
    IF secret = "" THEN "false"
    ELSE IF signature.kind \in {"absent", "empty"} THEN "false"
    ELSE IF ~rawbody.utf8 THEN "raise"
    ELSE IF signature.kind = "nonascii" THEN "raise"
    ELSE IF signature = hexdigest(secret, rawbody.raw) THEN "true"
    ELSE "false"

\* A raw request body: its bytes (named, for the digest), whether they
\* decode as UTF-8, whether they parse as JSON, and the parsed value
RawBody(raw, utf8, json, value) == [raw |-> raw, utf8 |-> utf8, json |-> json, value |-> value]
NoBody == RawBody("", TRUE, FALSE, JNull)

K_sender == <<"s", "e", "n", "d", "e", "r">>
K_content == <<"c", "o", "n", "t", "e", "n", "t">>
S_alice == <<"a", "l", "i", "c", "e">>
S_buy == <<"b", "u", "y">>
K_password == <<"p", "a", "s", "s", "w", "o", "r", "d">>

OrderContent ==
    JObj(<<KV(K_instId, JStr(S_BTC_USDT)), KV(K_side, JStr(S_buy)), KV(K_sz, JStr(<<"1">>))>>)

OrderBody ==
    RawBody("order", TRUE, TRUE,
            JObj(<<KV(K_sender, JStr(S_alice)), KV(K_content, OrderContent)>>))

\* the request bodies the handler is run on
HandlerBodies ==
    { RawBody("notutf8", FALSE, FALSE, JNull),
      RawBody("notjson", TRUE, FALSE, JNull),
      RawBody("array", TRUE, TRUE, JArr(<<>>)),
      RawBody("order", TRUE, TRUE,
              JObj(<<KV(K_sender, JStr(S_alice)), KV(K_content, OrderContent)>>)),
      RawBody("password", TRUE, TRUE,
              JObj(<<KV(K_content, JObj(<<KV(K_password, JStr(<<"x">>))>>))>>)),
      RawBody("nullsender", TRUE, TRUE,
              JObj(<<KV(K_sender, JNull), KV(K_content, OrderContent)>>)) }

\* the x-vercel-signature headers a request with the given body may carry
HandlerHeaders(b) ==
    { NoHeader, hexdigest("whsec", b.raw) }
        \cup (IF b = OrderBody THEN { NonAsciiHeader, hexdigest("other", b.raw) } ELSE {})

\* Settings: the webhook secret and the three exchange credentials
Settings(secret, api_key, secret_key, passphrase) ==
    [WEBHOOK_SECRET |-> secret, OKX_API_KEY |-> api_key,
     OKX_SECRET_KEY |-> secret_key, OKX_PASSPHRASE |-> passphrase]

HandlerSettings ==
    { Settings("whsec", "k", "s", "p"),
      Settings("", "k", "s", "p"),
      Settings("whsec", "k", "s", "") }

\* CredentialsConfigured with any() in the place of all()
CredentialsConfiguredAny(st) ==
    st.OKX_API_KEY # "" \/ st.OKX_SECRET_KEY # "" \/ st.OKX_PASSPHRASE # ""

\* OKXAPIClient.__init__: all([api_key, secret_key, passphrase])
CredentialsConfigured(st) ==
    st.OKX_API_KEY # "" /\ st.OKX_SECRET_KEY # "" /\ st.OKX_PASSPHRASE # ""

NumRequests == 2
Requests == 1..NumRequests

\* the tasks that hand an error to the shared ErrorHandler
NumClassifiers == 6
Classifiers == 1..NumClassifiers

NoForward == [state |-> "none", err |-> ""]

\* the JSONResponse of the outer `except Exception`
InternalServerError == Response(500, "error", "Internal server error", "none")

\* the response of the inner `except Exception`: error is
\* f"Internal error: {str(e)}"
InternalError(exc) == WithException(format_response(500, "none", FALSE, "Internal error: "), exc)

\* str(e) of the ValueError OKXAPIClient.__init__ raises
CredentialsError == "OKX API credentials not properly configured"

\* where the handler goes after request.json()
AfterParse(b) ==
    IF ~b.utf8 THEN "raise"
    ELSE IF ~b.json THEN "invalid"
    ELSE "verify"

\* AfterVerify without the early return on a false verdict
AfterVerifyNoReturn(v) == IF v = "raise" THEN "raise" ELSE "filter"

\* where the handler goes after validate_webhook_signature
AfterVerify(v) ==
    CASE v = "true" -> "filter"
      [] v = "false" -> "reject"
      [] OTHER -> "raise"

\* where the handler goes after filter_message
AfterFilter(f) == IF f.valid THEN "construct" ELSE "reject"

\* whether WebhookMessage(sender=body.get("sender", "unknown"), ...) can be
\* built: the body is a dict and the sender a str
MessageBuilds(value) ==
    /\ value.tag = "obj"
    /\ (HasKey(value, K_sender) => Get(value, K_sender).tag = "str")

K_timestamp == <<"t", "i", "m", "e", "s", "t", "a", "m", "p">>

\* The "timestamp" a payload carries: an ISO text in the JSON, kept as the
\* clock reading it denotes
PayloadTimestamp(t) == JNum(t)

\* the WebhookMessage were the timestamp of the payload taken when there
\* is one
BuildMessageFromPayload(value, now) ==
    WebhookMessage(IF HasKey(value, K_sender) THEN Get(value, K_sender).s ELSE S_unknown,
                   Get(value, K_content),
                   IF HasKey(value, K_timestamp)
                   THEN Timestamp(Get(value, K_timestamp).n, FALSE)
                   ELSE Timestamp(now, FALSE))

\* the WebhookMessage the handler builds from the parsed body at time now:
\* timestamp=datetime.now(), whatever the body holds
BuildMessage(value, now) ==
    WebhookMessage(IF HasKey(value, K_sender) THEN Get(value, K_sender).s ELSE S_unknown,
                   Get(value, K_content),
                   Timestamp(now, FALSE))

\* what the branch `except OKXAPIError` of the handler does with an error
\* of the given class: recover, format with success = bool(recovery), and
\* answer 502 when there is no recovery
RecoveryResponse(kind, err) ==
    LET recovery == recover_from_error(kind)
    IN IF recovery = "none"
       THEN WithException(format_response(502, "none", FALSE, ""), err)
       ELSE format_response(200, recovery, TRUE, "")

\* the branch `except OKXAPIError` were the OKXAPIError itself handed to
\* recover_from_error
HandleForwardErrorUnwrapped(err) == RecoveryResponse("OKXAPIError", err)

\* the branch `except OKXAPIError` of the handler: the error is wrapped in
\* an APIError
HandleForwardError(err) == RecoveryResponse("APIError", err)

\* whether the handler awaits okx_client.close() once forward_message ended
ClosesAfter(how) == how = "returned"

-----------------------------------------------------------------------------
(* The handler coroutines.  A step runs from one await to the next.        *)

\* the reading of the clock in the runs below, in seconds
FilterNow == 1000

\* one OKXAPIClient of the module used by every invocation
ClientShared(r) == CHOOSE q \in Requests : \A p \in Requests : q <= p

\* the OKXAPIClient of invocation r: the local `okx_client` of that call of
\* the handler
ClientOf(r) == r

\* _generate_timestamp when the clock reads now
generate_timestamp(now) == now

\* _sign_request: the HMAC-SHA256 of timestamp + method.upper() +
\* request_path + body under secret_key, kept symbolic: two signatures are
\* equal exactly when the key and the signed text are
sign_request(secret_key, timestamp, method, request_path, data) ==
    [key |-> secret_key, timestamp |-> timestamp, method |-> method,
     request_path |-> request_path, body |-> data]

\* _get_headers when the clock reads now
get_headers(st, method, request_path, data, now) ==
    LET timestamp == generate_timestamp(now)
    IN [key |-> st.OKX_API_KEY,
        sign |-> sign_request(st.OKX_SECRET_KEY, timestamp, method, request_path, data),
        timestamp |-> timestamp,
        passphrase |-> st.OKX_PASSPHRASE]

\* the endpoint and the data forward_message passes to _make_request
ForwardArgs(message) ==
    LET e == determine_endpoint(message.content)
    IN [endpoint |-> e.endpoint,
        data |-> [base_data |-> e.data, timestamp |-> message.timestamp,
                  source |-> message.sender]]

\* the headers of an attempt were they computed afresh for every attempt
RequestHeadersFresh(computed, fresh) == fresh

\* headers=headers in the loop of _make_request: the dict computed before
\* the loop, whatever the clock reads at the attempt
RequestHeaders(computed, fresh) == computed

\* no task classifies an error
NoTasks == tasks = [c \in Classifiers |-> "start"]

\* no _make_request is running
NoneSent ==
    /\ headers = [r \in Requests |-> <<>>]
    /\ sent = [r \in Requests |-> <<>>]

RECURSIVE SumSeq(_)
SumSeq(s) == IF s = <<>> THEN 0 ELSE Head(s) + SumSeq(Tail(s))

\* what the clock reads for request r: the time the handler was entered
\* and the sleeps of its retry loop since
Clock(r) == FilterNow + SumSeq(sleeps[r])

\* _get_headers("POST", request_path, body) for the message of request r
HeadersAt(r, now) ==
    LET a == ForwardArgs(msg[r])
    IN get_headers(settings, "POST", a.endpoint, a.data, now)

NoCall == <<>>
NoRet == <<>>

Init ==
    /\ settings \in HandlerSettings
    /\ pc = [r \in Requests |-> "idle"]
    /\ body = [r \in Requests |-> NoBody]
    /\ sig = [r \in Requests |-> NoHeader]
    /\ sigv = [r \in Requests |-> "none"]
    /\ filt = [r \in Requests |-> <<>>]
    /\ msg = [r \in Requests |-> NoMessage]
    /\ client = [r \in Requests |-> "none"]
    /\ attempt = [r \in Requests |-> 0]
    /\ calls = [r \in Requests |-> 0]
    /\ last = [r \in Requests |-> "none"]
    /\ sleeps = [r \in Requests |-> <<>>]
    /\ fails = [r \in Requests |-> 0]
    /\ params = [max_retries |-> max_retries, retry_delay |-> retry_delay]
    /\ fwd = [r \in Requests |-> NoForward]
    /\ resp = [r \in Requests |-> NoResponse]
    /\ call = NoCall
    /\ ret = NoRet
    /\ NoErrors
    /\ NoTasks
    /\ NoneSent

\* a request arrives
Receive(r) ==
    /\ pc[r] = "idle"
    /\ \E b \in HandlerBodies :
        \E h \in HandlerHeaders(b) :
            /\ body' = [body EXCEPT ![r] = b]
            /\ sig' = [sig EXCEPT ![r] = h]
    /\ pc' = [pc EXCEPT ![r] = "parse"]
    /\ UNCHANGED <<settings, sigv, filt, msg, client, attempt, calls, last, sleeps,
                   fails, params, fwd, resp, call, ret, evars, tasks, headers, sent>>

\* the response was sent: the task ends and its objects are dropped
Finish(r) ==
    /\ pc[r] = "done"
    /\ pc' = [pc EXCEPT ![r] = "idle"]
    /\ body' = [body EXCEPT ![r] = NoBody]
    /\ sig' = [sig EXCEPT ![r] = NoHeader]
    /\ sigv' = [sigv EXCEPT ![r] = "none"]
    /\ filt' = [filt EXCEPT ![r] = <<>>]
    /\ msg' = [msg EXCEPT ![r] = NoMessage]
    /\ client' = [client EXCEPT ![ClientOf(r)] = "none"]
    /\ attempt' = [attempt EXCEPT ![r] = 0]
    /\ calls' = [calls EXCEPT ![r] = 0]
    /\ last' = [last EXCEPT ![r] = "none"]
    /\ sleeps' = [sleeps EXCEPT ![r] = <<>>]
    /\ fails' = [fails EXCEPT ![r] = 0]
    /\ fwd' = [fwd EXCEPT ![r] = NoForward]
    /\ resp' = [resp EXCEPT ![r] = NoResponse]
    /\ headers' = [headers EXCEPT ![r] = <<>>]
    /\ sent' = [sent EXCEPT ![r] = <<>>]
    /\ UNCHANGED <<settings, params, call, ret, evars, tasks>>

\* body = await request.json()
ParseBody(r) ==
    /\ pc[r] = "parse"
    /\ LET to == AfterParse(body[r])
       IN /\ pc' = [pc EXCEPT ![r] = IF to = "verify" THEN "verify" ELSE "done"]
          /\ resp' = [resp EXCEPT ![r] =
                CASE to = "invalid" -> Response(400, "error", "Invalid JSON payload", "none")
                  [] to = "raise" -> InternalServerError
                  [] OTHER -> NoResponse]
    /\ UNCHANGED <<settings, body, sig, sigv, filt, msg, client, attempt, calls,
                   last, sleeps, fails, params, fwd, call, ret, evars, tasks, headers, sent>>

\* is_valid = await validate_webhook_signature(request)
Verify(r) ==
    /\ pc[r] = "verify"
    /\ LET v == validate_webhook_signature(settings.WEBHOOK_SECRET, sig[r], body[r])
           to == AfterVerify(v)
       IN /\ sigv' = [sigv EXCEPT ![r] = v]
          /\ pc' = [pc EXCEPT ![r] = IF to = "filter" THEN "filter" ELSE "done"]
          /\ resp' = [resp EXCEPT ![r] =
                CASE to = "reject" -> Response(401, "error", "Invalid webhook signature", "none")
                  [] to = "raise" -> InternalServerError
                  [] OTHER -> NoResponse]
    /\ UNCHANGED <<settings, body, sig, filt, msg, client, attempt, calls,
                   last, sleeps, fails, params, fwd, call, ret, evars, tasks, headers, sent>>

\* the message is built, stamped with datetime.now(), and filtered
Filter(r) ==
    /\ pc[r] = "filter"
    /\ IF ~MessageBuilds(body[r].value)
       THEN /\ pc' = [pc EXCEPT ![r] = "done"]
            /\ resp' = [resp EXCEPT ![r] = InternalServerError]
            /\ UNCHANGED <<filt, msg>>
       ELSE LET f == filter_message(BuildMessage(body[r].value, FilterNow), FilterNow)
                to == AfterFilter(f)
            IN /\ filt' = [filt EXCEPT ![r] = <<[valid |-> f.valid, reason |-> f.reason]>>]
               /\ msg' = [msg EXCEPT ![r] = f.message]
               /\ pc' = [pc EXCEPT ![r] = IF to = "construct" THEN "construct" ELSE "done"]
               /\ resp' = [resp EXCEPT ![r] =
                    IF to = "construct" THEN NoResponse
                    ELSE Response(400, "error", f.reason, "none")]
    /\ UNCHANGED <<settings, body, sig, sigv, client, attempt, calls,
                   last, sleeps, fails, params, fwd, call, ret, evars, tasks, headers, sent>>

\* okx_client = OKXAPIClient(); forward_message runs up to its first
\* client.request
Construct(r) ==
    /\ pc[r] = "construct"
    /\ IF ~CredentialsConfigured(settings)
       THEN /\ pc' = [pc EXCEPT ![r] = "done"]
            /\ resp' = [resp EXCEPT ![r] = InternalError(CredentialsError)]
            /\ UNCHANGED <<client, fwd, headers>>
       ELSE IF 0 < params.max_retries
       THEN /\ client' = [client EXCEPT ![ClientOf(r)] = "open"]
            /\ headers' = [headers EXCEPT ![r] = <<HeadersAt(r, Clock(r))>>]
            /\ pc' = [pc EXCEPT ![r] = "request"]
            /\ UNCHANGED <<resp, fwd>>
       ELSE /\ client' = [client EXCEPT ![ClientOf(r)] = "open"]
            /\ headers' = [headers EXCEPT ![r] = <<HeadersAt(r, Clock(r))>>]
            /\ fwd' = [fwd EXCEPT ![r] = [state |-> "raised", err |-> "Max retries exceeded"]]
            /\ pc' = [pc EXCEPT ![r] = "done"]
            /\ resp' = [resp EXCEPT ![r] = HandleForwardError("Max retries exceeded")]
    /\ attempt' = [attempt EXCEPT ![r] = 0]
    /\ UNCHANGED <<settings, body, sig, sigv, filt, msg, calls, last, sleeps, fails,
                   params, call, ret, evars, tasks, sent>>

\* one await of client.request and what the loop body does with it; an
\* error raised out of forward_message is handled in the same step
Request(r) ==
    /\ pc[r] = "request"
    /\ \E o \in Outcomes :
        LET a == AfterAttempt(attempt[r], o, params.max_retries)
        IN /\ calls' = [calls EXCEPT ![r] = @ + 1]
           /\ fails' = [fails EXCEPT ![r] = IF o \in RetryableFailures THEN @ + 1 ELSE @]
           /\ last' = [last EXCEPT ![r] = o]
           /\ sent' = [sent EXCEPT ![r] =
                    Append(@, [headers |-> RequestHeaders(Head(headers[r]), HeadersAt(r, Clock(r))),
                               at |-> Clock(r)])]
           /\ CASE a.do = "return" ->
                    /\ fwd' = [fwd EXCEPT ![r] = [state |-> "returned", err |-> ""]]
                    /\ pc' = [pc EXCEPT ![r] = IF ClosesAfter("returned") THEN "close" ELSE "respond"]
                    /\ UNCHANGED <<sleeps, resp>>
                [] a.do = "sleep" ->
                    /\ sleeps' = [sleeps EXCEPT ![r] = Append(@, Backoff(attempt[r], params.retry_delay))]
                    /\ pc' = [pc EXCEPT ![r] = "sleep"]
                    /\ UNCHANGED <<fwd, resp>>
                [] OTHER ->
                    /\ fwd' = [fwd EXCEPT ![r] = [state |-> "raised", err |-> a.err]]
                    /\ IF ClosesAfter("raised")
                       THEN pc' = [pc EXCEPT ![r] = "close"] /\ UNCHANGED resp
                       ELSE /\ pc' = [pc EXCEPT ![r] = "done"]
                            /\ resp' = [resp EXCEPT ![r] = HandleForwardError(a.err)]
                    /\ UNCHANGED sleeps
    /\ UNCHANGED <<settings, body, sig, sigv, filt, msg, client, attempt, params,
                   call, ret, evars, tasks, headers>>

\* asyncio.sleep returns; `continue` takes the next index of range(max_retries)
Wake(r) ==
    /\ pc[r] = "sleep"
    /\ attempt' = [attempt EXCEPT ![r] = @ + 1]
    /\ last' = [last EXCEPT ![r] = "none"]
    /\ IF attempt[r] + 1 < params.max_retries
       THEN pc' = [pc EXCEPT ![r] = "request"] /\ UNCHANGED <<fwd, resp>>
       ELSE /\ fwd' = [fwd EXCEPT ![r] = [state |-> "raised", err |-> "Max retries exceeded"]]
            /\ pc' = [pc EXCEPT ![r] = "done"]
            /\ resp' = [resp EXCEPT ![r] = HandleForwardError("Max retries exceeded")]
    /\ UNCHANGED <<settings, body, sig, sigv, filt, msg, client, calls, sleeps, fails,
                   params, call, ret, evars, tasks, headers, sent>>

\* await okx_client.close(), then the response is formatted and returned
Close(r) ==
    /\ pc[r] = "close"
    /\ client' = [client EXCEPT ![ClientOf(r)] = "closed"]
    /\ pc' = [pc EXCEPT ![r] = "done"]
    /\ resp' = [resp EXCEPT ![r] =
            IF fwd[r].state = "returned" THEN format_response(200, "result", TRUE, "")
            ELSE HandleForwardError(fwd[r].err)]
    /\ UNCHANGED <<settings, body, sig, sigv, filt, msg, attempt, calls, last, sleeps,
                   fails, params, fwd, call, ret, evars, tasks, headers, sent>>

Step(r) ==
    \/ ParseBody(r)
    \/ Verify(r)
    \/ Filter(r)
    \/ Construct(r)
    \/ Request(r)
    \/ Wake(r)
    \/ Close(r)

Next == \E r \in Requests : Receive(r) \/ Step(r) \/ Finish(r)

Spec == Init /\ [][Next]_vars

\* the event loop resumes every coroutine whose await has completed: a
\* client.request ends within its timeout, a sleep and a close return
FairSpec == Spec /\ \A r \in Requests : WF_vars(Step(r))

-----------------------------------------------------------------------------
(* _make_request on its own: one call, for each max_retries and            *)
(* retry_delay a caller may pass                                           *)

MaxRetriesArg == 4
MaxDelayArg == 2

\* the request whose call is followed
Caller == CHOOSE r \in Requests : \A q \in Requests : r <= q

\* the request of Caller is at `okx_client = OKXAPIClient()`
CallStart ==
    /\ params \in [max_retries : 0..MaxRetriesArg, retry_delay : 1..MaxDelayArg]
    /\ pc = [r \in Requests |-> IF r = Caller THEN "construct" ELSE "idle"]
    /\ body = [r \in Requests |-> IF r = Caller THEN OrderBody ELSE NoBody]
    /\ sig = [r \in Requests |->
                IF r = Caller THEN hexdigest("whsec", OrderBody.raw) ELSE NoHeader]
    /\ sigv = [r \in Requests |-> IF r = Caller THEN "true" ELSE "none"]
    /\ filt = [r \in Requests |->
                IF r = Caller THEN <<[valid |-> TRUE, reason |-> ""]>> ELSE <<>>]
    /\ msg = [r \in Requests |->
                IF r = Caller
                THEN filter_message(BuildMessage(OrderBody.value, FilterNow), FilterNow).message
                ELSE NoMessage]
    /\ client = [r \in Requests |-> "none"]
    /\ attempt = [r \in Requests |-> 0]
    /\ calls = [r \in Requests |-> 0]
    /\ last = [r \in Requests |-> "none"]
    /\ sleeps = [r \in Requests |-> <<>>]
    /\ fails = [r \in Requests |-> 0]
    /\ fwd = [r \in Requests |-> NoForward]
    /\ resp = [r \in Requests |-> NoResponse]
    /\ call = NoCall
    /\ ret = NoRet
    /\ NoErrors
    /\ NoTasks
    /\ NoneSent

InitRetry == settings = Settings("whsec", "k", "s", "p") /\ CallStart

NextRetry ==
    \/ Construct(Caller)
    \/ Request(Caller)
    \/ Wake(Caller)
    \/ Close(Caller)

SpecRetry == InitRetry /\ [][NextRetry]_vars

FairSpecRetry == SpecRetry /\ WF_vars(NextRetry)

(* OKXAPIClient() and the call, under every choice of configured and      *)
(* missing credentials                                                     *)

CredentialSettings ==
    { Settings("whsec", k, s, p) : k \in {"", "k"}, s \in {"", "s"}, p \in {"", "p"} }

InitCredentials == settings \in CredentialSettings /\ CallStart

SpecCredentials == InitCredentials /\ [][NextRetry]_vars

(* The handler from the construction of the WebhookMessage on, for        *)
(* payloads that carry a timestamp of their own                            *)

\* the ages of the payload timestamps, in seconds: fresh, at the limit,
\* past it by a second, and twice the limit
PayloadAges ==
    { FilterNow - FilterNow,
      max_message_age_minutes * SecondsPerMinute,
      max_message_age_minutes * SecondsPerMinute + 1,
      (max_message_age_minutes + max_message_age_minutes) * SecondsPerMinute }

StampBody(raw, content, age) ==
    RawBody(raw, TRUE, TRUE,
            JObj(<<KV(K_sender, JStr(S_alice)), KV(K_content, content),
                   KV(K_timestamp, PayloadTimestamp(FilterNow - age))>>))

StampBodies ==
    { OrderBody }
        \cup { StampBody("order", OrderContent, age) : age \in PayloadAges }
        \cup { StampBody("password", JObj(<<KV(K_password, JStr(<<"x">>))>>), age) :
                    age \in PayloadAges }

\* the request of Caller has passed the signature check
InitStamp ==
    /\ settings = Settings("whsec", "k", "s", "p")
    /\ params = [max_retries |-> max_retries, retry_delay |-> retry_delay]
    /\ pc = [r \in Requests |-> IF r = Caller THEN "filter" ELSE "idle"]
    /\ \E b \in StampBodies :
        /\ body = [r \in Requests |-> IF r = Caller THEN b ELSE NoBody]
        /\ sig = [r \in Requests |->
                    IF r = Caller THEN hexdigest("whsec", b.raw) ELSE NoHeader]
    /\ sigv = [r \in Requests |-> IF r = Caller THEN "true" ELSE "none"]
    /\ filt = [r \in Requests |-> <<>>]
    /\ msg = [r \in Requests |-> NoMessage]
    /\ client = [r \in Requests |-> "none"]
    /\ attempt = [r \in Requests |-> 0]
    /\ calls = [r \in Requests |-> 0]
    /\ last = [r \in Requests |-> "none"]
    /\ sleeps = [r \in Requests |-> <<>>]
    /\ fails = [r \in Requests |-> 0]
    /\ fwd = [r \in Requests |-> NoForward]
    /\ resp = [r \in Requests |-> NoResponse]
    /\ call = NoCall
    /\ ret = NoRet
    /\ NoErrors
    /\ NoTasks
    /\ NoneSent

NextStamp == Filter(Caller) \/ NextRetry

SpecStamp == InitStamp /\ [][NextStamp]_vars

-----------------------------------------------------------------------------
(* Function-level specifications: one function applied to one input        *)

\* no request is in the handler
Quiet ==
    /\ settings = Settings("whsec", "k", "s", "p")
    /\ params = [max_retries |-> max_retries, retry_delay |-> retry_delay]
    /\ pc = [r \in Requests |-> "idle"]
    /\ body = [r \in Requests |-> NoBody]
    /\ sig = [r \in Requests |-> NoHeader]
    /\ sigv = [r \in Requests |-> "none"]
    /\ filt = [r \in Requests |-> <<>>]
    /\ msg = [r \in Requests |-> NoMessage]
    /\ client = [r \in Requests |-> "none"]
    /\ attempt = [r \in Requests |-> 0]
    /\ calls = [r \in Requests |-> 0]
    /\ last = [r \in Requests |-> "none"]
    /\ sleeps = [r \in Requests |-> <<>>]
    /\ fails = [r \in Requests |-> 0]
    /\ fwd = [r \in Requests |-> NoForward]
    /\ resp = [r \in Requests |-> NoResponse]
    /\ NoErrors
    /\ NoTasks
    /\ NoneSent

hvars_but_tasks ==
    <<settings, pc, body, sig, sigv, filt, msg, client, attempt, calls,
      last, sleeps, fails, params, fwd, resp, evars, headers, sent>>

hvars == <<settings, pc, body, sig, sigv, filt, msg, client, attempt, calls,
           last, sleeps, fails, params, fwd, resp, evars, tasks, headers, sent>>

(* validate_webhook_signature *)

SignatureSecrets == {"", "whsec", "other"}

SignatureBodies ==
    { RawBody("b1", TRUE, TRUE, JNull),
      RawBody("b2", TRUE, FALSE, JNull),
      RawBody("", TRUE, FALSE, JNull),
      RawBody("b3", FALSE, FALSE, JNull) }

SignatureHeaders ==
    {NoHeader, EmptyHeader, NonAsciiHeader}
        \cup {hexdigest(k, b) : k \in {"whsec", "other"}, b \in {"b1", "b2", "b3", ""}}

InitSignature ==
    /\ Quiet
    /\ call \in [secret : SignatureSecrets, signature : SignatureHeaders, body : SignatureBodies]
    /\ ret = NoRet

ApplySignature ==
    /\ ret = NoRet
    /\ ret' = <<validate_webhook_signature(call.secret, call.signature, call.body)>>
    /\ UNCHANGED <<hvars, call>>

SpecSignature == InitSignature /\ [][ApplySignature]_vars

(* _determine_endpoint *)

K_note == <<"n", "o", "t", "e">>
S_ETH_USDT == <<"E", "T", "H", "-", "U", "S", "D", "T">>
S_spot == <<"s", "p", "o", "t">>

\* the dict with the pairs of `pairs` whose key is in `keys`, in order
Restrict(pairs, keys) == JObj(SelectSeq(pairs, LAMBDA kv : kv.k \in keys))

EndpointPairs ==
    { <<KV(K_instId, JStr(inst)), KV(K_side, JStr(S_buy)), KV(K_sz, JStr(<<"1">>)),
        KV(K_type, JStr(ty)), KV(K_note, JStr(S_alice))>> :
        inst \in {S_BTC_USDT, S_ETH_USDT}, ty \in {S_market_data, S_spot} }

EndpointContents ==
    { Restrict(ps, ks) : ps \in EndpointPairs,
                         ks \in SUBSET {K_instId, K_side, K_sz, K_type, K_note} }
        \cup { JNull, JBool(TRUE), JNum(7),
               JStr(K_instId \o <<" ">> \o K_side \o <<" ">> \o K_sz),
               JArr(<<JStr(K_instId), JStr(K_side), JStr(K_sz)>>),
               JArr(<<OrderContent>>) }

InitEndpoint ==
    /\ Quiet
    /\ call \in [content : EndpointContents]
    /\ ret = NoRet

ApplyEndpoint ==
    /\ ret = NoRet
    /\ ret' = <<determine_endpoint(call.content)>>
    /\ UNCHANGED <<hvars, call>>

SpecEndpoint == InitEndpoint /\ [][ApplyEndpoint]_vars

(* filter_message *)

S_hello == <<"h", "e", "l", "l", "o">>


FilterContents ==
    { JNull, JStr(<<>>), JNum(0), JObj(<<>>), JArr(<<>>), JBool(FALSE),
      JNum(7), JBool(TRUE),
      JStr(S_hello),
      JStr(<<"m", "y", " ", "T", "o", "K", "e", "n">>),
      JStr(Repeat("a", max_content_length)),
      JStr(Repeat("a", max_content_length + 1)),
      JStr(Repeat("a", max_content_length) \o <<"k", "e", "y">>),
      OrderContent,
      JObj(<<KV(K_password, JStr(<<"x">>))>>),
      JArr(<<JStr(<<"s", "e", "c", "r", "e", "t">>)>>),
      JStr(<<"m", "o", "n", "K", "E", "Y", "s">>),
      JObj(<<KV(K_note, JArr(<<JNum(7), JObj(<<KV(K_side,
                JStr(<<"x", "C", "r", "e", "d", "e", "n", "t", "i", "a", "l", "y">>))>>)>>))>>),
      JObj(<<KV(<<"a", "p", "i", "T", "o", "k", "e", "n">>, JNum(7))>>),
      JArr(<<JStr(S_hello), JNum(7), JNull>>) }

FilterTimestamps ==
    { Timestamp(FilterNow, FALSE),
      Timestamp(FilterNow + 100, FALSE),
      Timestamp(FilterNow - max_message_age_minutes * SecondsPerMinute, FALSE),
      Timestamp(FilterNow - max_message_age_minutes * SecondsPerMinute - 1, FALSE),
      Timestamp(FilterNow, TRUE),
      Timestamp(FilterNow - max_message_age_minutes * SecondsPerMinute - 1, TRUE) }

FilterMessages ==
    { WebhookMessage(s, c, ts) : s \in {<<>>, S_alice}, c \in FilterContents,
                                 ts \in FilterTimestamps }

InitFilter ==
    /\ Quiet
    /\ call \in [message : FilterMessages, now : {FilterNow}]
    /\ ret = NoRet

ApplyFilter ==
    /\ ret = NoRet
    /\ ret' = <<filter_message(call.message, call.now)>>
    /\ UNCHANGED <<hvars, call>>

SpecFilter == InitFilter /\ [][ApplyFilter]_vars

(* sanitize_content, applied once and then to its own result *)

S_helloworld == <<"h", "e", "l", "l", "o", "w", "o", "r", "l", "d">>
S_card == <<"1", "2", "3", "4", "5", "6", "7", "8", "1", "2", "3", "4", "5", "6", "7", "8">>
S_card_dashed ==
    <<"1", "2", "3", "4", "-", "5", "6", "7", "8", "-",
      "1", "2", "3", "4", "-", "5", "6", "7", "8">>
S_card_spaced ==
    <<"1", "2", "3", "4", " ", "5", "6", "7", "8", " ",
      "1", "2", "3", "4", " ", "5", "6", "7", "8">>

TokenLen == 40

\* a token of TokenLen letters and digits
S_token == [i \in 1..TokenLen |-> IF i % 3 = 0 THEN "7" ELSE IF i % 3 = 1 THEN "a" ELSE "B"]

\* the pieces a text is made of: what it is about, with its kind, and the
\* text before and after it
SanitizeCores ==
    { [kind |-> "card", text |-> S_card],
      [kind |-> "card", text |-> S_card_dashed],
      [kind |-> "card", text |-> S_card_spaced],
      [kind |-> "token", text |-> S_token],
      [kind |-> "word", text |-> S_helloworld],
      [kind |-> "other", text |-> Repeat("U+0661", Len(S_card))],
      [kind |-> "other", text |-> REDACTED] }

SanitizeBefore ==
    { <<>>, <<"x", " ">>, <<"a">>, <<"7">>, <<"_">>, <<"-">>, <<"U+00E9">>, <<":">>,
      Repeat("a", TokenMinLen) }

SanitizeAfter == { <<>>, <<" ", "y">>, <<"a">>, <<"7">>, <<"_">>, <<"-">>, <<".">> }

\* where the text sits in the content: the content itself, a value of an
\* object, an item of an array, or a value of an object in an array in an
\* array in an object
SanitizeShapes == {"str", "obj", "arr", "deep"}

Shaped(shape, v) ==
    CASE shape = "str" -> v
      [] shape = "obj" -> JObj(<<KV(K_note, v), KV(K_sz, JNum(7))>>)
      [] shape = "arr" -> JArr(<<JNull, v>>)
      [] OTHER -> JObj(<<KV(K_note, JArr(<<JArr(<<JObj(<<KV(K_side, v)>>), JBool(TRUE)>>)>>))>>)

\* the value at the place where Shaped put it
Unshaped(shape, c) ==
    CASE shape = "str" -> c
      [] shape = "obj" -> c.pairs[1].v
      [] shape = "arr" -> c.elems[2]
      [] OTHER -> c.pairs[1].v.elems[1].elems[1].pairs[1].v

SanitizeCalls ==
    [core : SanitizeCores, before : SanitizeBefore, after : SanitizeAfter,
     shape : SanitizeShapes]

\* the content of a call
ContentOf(c) == Shaped(c.shape, JStr(c.before \o c.core.text \o c.after))

InitSanitize ==
    /\ Quiet
    /\ call \in SanitizeCalls
    /\ ret = NoRet

\* sanitize_content(content)
ApplySanitize ==
    /\ ret = NoRet
    /\ ret' = <<sanitize_content(ContentOf(call))>>
    /\ UNCHANGED <<hvars, call>>

\* sanitize_content on the content it returned
ApplySanitizeAgain ==
    /\ Len(ret) = 1
    /\ ret' = Append(ret, sanitize_content(ret[1]))
    /\ UNCHANGED <<hvars, call>>

NextSanitize == ApplySanitize \/ ApplySanitizeAgain

SpecSanitize == InitSanitize /\ [][NextSanitize]_vars

(* filter_message on the object graph.  heap[a] is the object at address  *)
(* a: a str, number, bool or None as its JSON value, a list with the      *)
(* addresses of its items, a dict with the addresses of its values, a     *)
(* WebhookMessage with its sender, the address of its content and its     *)
(* timestamp.  Lists, dicts and messages are mutable.                      *)

Mutable(o) == o.tag \in {"arr", "obj", "msg"}

Alloc(h, o) == [h |-> Append(h, o), a |-> Len(h) + 1]

MessageObject(sender, content, timestamp) ==
    [JBlank EXCEPT !.tag = "msg", !.s = sender, !.elems = <<content>>,
                   !.n = timestamp.t, !.b = timestamp.aware]

\* the JSON value of the object at a
RECURSIVE Load(_, _)
Load(h, a) ==
    LET o == h[a]
    IN CASE o.tag = "arr" -> JArr([i \in 1..Len(o.elems) |-> Load(h, o.elems[i])])
         [] o.tag = "obj" ->
                JObj([i \in 1..Len(o.pairs) |-> KV(o.pairs[i].k, Load(h, o.pairs[i].v))])
         [] OTHER -> o

\* the WebhookMessage at a, with the value of its content
LoadMessage(h, a) ==
    WebhookMessage(h[a].s, Load(h, h[a].elems[1]), Timestamp(h[a].n, h[a].b))

\* the addresses reachable from a, a included
RECURSIVE Reach(_, _)
Reach(h, a) ==
    {a} \cup UNION {Reach(h, h[a].elems[i]) : i \in 1..Len(h[a].elems)}
        \cup UNION {Reach(h, h[a].pairs[i].v) : i \in 1..Len(h[a].pairs)}

\* a JSON value built in the heap, every value a new object
RECURSIVE Store(_, _)
RECURSIVE StoreAll(_, _)
Store(h, v) ==
    CASE v.tag = "arr" ->
            LET items == StoreAll(h, v.elems)
            IN Alloc(items.h, [v EXCEPT !.elems = items.as])
      [] v.tag = "obj" ->
            LET vals == StoreAll(h, [i \in 1..Len(v.pairs) |-> v.pairs[i].v])
            IN Alloc(vals.h, [v EXCEPT !.pairs = [i \in 1..Len(v.pairs) |->
                                                    KV(v.pairs[i].k, vals.as[i])]])
      [] OTHER -> Alloc(h, v)
StoreAll(h, vs) ==
    IF vs = <<>> THEN [h |-> h, as |-> <<>>]
    ELSE LET first == Store(h, Head(vs))
             rest == StoreAll(first.h, Tail(vs))
         IN [h |-> rest.h, as |-> <<first.a>> \o rest.as]

\* sanitize_content on the object at a: the heap after the call and the
\* address of the object returned.  re.sub gives a str, a comprehension a
\* new dict or list, anything else is returned as it is
RECURSIVE sanitize_content_at(_, _)
RECURSIVE SanitizeAll(_, _)
sanitize_content_at(h, a) ==
    LET o == h[a]
    IN CASE o.tag = "str" ->
                IF SanitizeStr(o.s) = o.s THEN [h |-> h, a |-> a]
                ELSE Alloc(h, JStr(SanitizeStr(o.s)))
         [] o.tag = "obj" ->
                LET vals == SanitizeAll(h, [i \in 1..Len(o.pairs) |-> o.pairs[i].v])
                IN Alloc(vals.h, [o EXCEPT !.pairs = [i \in 1..Len(o.pairs) |->
                                                        KV(o.pairs[i].k, vals.as[i])]])
         [] o.tag = "arr" ->
                LET items == SanitizeAll(h, o.elems)
                IN Alloc(items.h, [o EXCEPT !.elems = items.as])
         [] OTHER -> [h |-> h, a |-> a]
SanitizeAll(h, as) ==
    IF as = <<>> THEN [h |-> h, as |-> <<>>]
    ELSE LET first == sanitize_content_at(h, Head(as))
             rest == SanitizeAll(first.h, Tail(as))
         IN [h |-> rest.h, as |-> <<first.a>> \o rest.as]

\* the address in the place of None
NoAddress == 0

\* filter_message that wraps the content of the original in the new message
filter_message_at_unsanitized(h, a, now) ==
    LET m == LoadMessage(h, a)
        f == filter_message(m, now)
    IN IF ~f.valid
       THEN [h |-> h, valid |-> FALSE, reason |-> f.reason, message |-> NoAddress]
       ELSE LET made == Alloc(h, MessageObject(h[a].s, h[a].elems[1], m.timestamp))
            IN [h |-> made.h, valid |-> TRUE, reason |-> "", message |-> made.a]

\* filter_message on the message object at a
filter_message_at(h, a, now) ==
    LET m == LoadMessage(h, a)
        f == filter_message(m, now)
    IN IF ~f.valid
       THEN [h |-> h, valid |-> FALSE, reason |-> f.reason, message |-> NoAddress]
       ELSE LET clean == sanitize_content_at(h, h[a].elems[1])
                made == Alloc(clean.h, MessageObject(h[a].s, clean.a, m.timestamp))
            IN [h |-> made.h, valid |-> TRUE, reason |-> "", message |-> made.a]

\* a heap that holds the message and nothing else
HeapOf(m) ==
    LET c == Store(<<>>, m.content)
    IN Alloc(c.h, MessageObject(m.sender, c.a, m.timestamp)).h

\* a dict whose two values are one list, which holds one str twice
SharedListHeap(text) ==
    << JStr(text),
       [JBlank EXCEPT !.tag = "arr", !.elems = <<1, 1>>],
       [JBlank EXCEPT !.tag = "obj", !.pairs = <<KV(K_note, 2), KV(K_side, 2)>>],
       MessageObject(S_alice, 3, Timestamp(FilterNow, FALSE)) >>

ShareContents ==
    FilterContents
        \cup { ContentOf(c) : c \in { d \in SanitizeCalls :
                                        d.before = <<"x", " ">> /\ d.after = <<" ", "y">> } }

ShareHeaps ==
    { HeapOf(WebhookMessage(S_alice, c, ts)) : c \in ShareContents, ts \in FilterTimestamps }
        \cup { SharedListHeap(S_hello), SharedListHeap(S_card) }

\* the message is the last object of the heap
InitShare ==
    /\ Quiet
    /\ \E h \in ShareHeaps : call = [heap |-> h, message |-> Len(h), now |-> FilterNow]
    /\ ret = NoRet

ApplyFilterAt ==
    /\ ret = NoRet
    /\ ret' = <<filter_message_at(call.heap, call.message, call.now)>>
    /\ UNCHANGED <<hvars, call>>

SpecShare == InitShare /\ [][ApplyFilterAt]_vars

(* The ErrorHandler singleton: handle_error and recover_from_error called  *)
(* in any order on any errors                                              *)

MaxErrors == 10

ErrorMessages == {"m1", "m2"}
ErrorContexts == {"None", "{'endpoint': 'OKX API'}"}

SumCounts(f) ==
    f["ValidationError"] + f["NetworkError"] + f["APIError"] + f["SecurityError"]
        + f["InternalServerError"]

\* error_handler.handle_error(error, context)
HandleError ==
    /\ SumCounts(classified) < MaxErrors
    /\ \E cls \in ErrorClasses, m \in ErrorMessages, ctx \in ErrorContexts :
        /\ call' = <<[fn |-> "handle_error", error |-> Error(cls, m), context |-> ctx]>>
        /\ ret' = <<handle_error(Error(cls, m), ctx)>>
        /\ Classify(cls)
    /\ UNCHANGED <<settings, pc, body, sig, sigv, filt, msg, client, attempt, calls,
                   last, sleeps, fails, params, fwd, resp, tasks, headers, sent>>

\* error_handler.recover_from_error(error), and the response the handler
\* formats from what it returned
RecoverFromError ==
    /\ \E cls \in ErrorClasses, m \in ErrorMessages :
        /\ call' = <<[fn |-> "recover_from_error", error |-> Error(cls, m), context |-> "None"]>>
        /\ ret' = <<[recovery |-> recover_from_error(cls), response |-> RecoveryResponse(cls, m)]>>
    /\ UNCHANGED <<hvars>>

InitErrors == Quiet /\ call = NoCall /\ ret = NoRet

NextErrors == HandleError \/ RecoverFromError

SpecErrors == InitErrors /\ [][NextErrors]_vars

(* Tasks of the event loop that fail with errors of one class and hand    *)
(* them to the shared error_handler                                       *)

\* the awaited operation of task c fails: the task is resumed with the
\* error and is ready to run
Fail(c) ==
    /\ tasks[c] = "start"
    /\ tasks' = [tasks EXCEPT ![c] = "failed"]
    /\ UNCHANGED <<hvars_but_tasks, call, ret>>

\* the event loop runs task c: error_handler.handle_error(error)
HandleErrorIn(c) ==
    /\ tasks[c] = "failed"
    /\ tasks' = [tasks EXCEPT ![c] = "done"]
    /\ ret' = <<handle_error(Head(call).error, Head(call).context)>>
    /\ Classify(Head(call).error.cls)
    /\ UNCHANGED <<settings, pc, body, sig, sigv, filt, msg, client, attempt, calls,
                   last, sleeps, fails, params, fwd, resp, headers, sent, call>>

InitConcurrent ==
    /\ Quiet
    /\ \E cls \in ErrorClasses :
        call = <<[fn |-> "handle_error", error |-> Error(cls, "m1"), context |-> "None"]>>
    /\ ret = NoRet

NextConcurrent == \E c \in Classifiers : Fail(c) \/ HandleErrorIn(c)

SpecConcurrent == InitConcurrent /\ [][NextConcurrent]_vars

(* sanitize_response *)

K_apiKey == <<"a", "p", "i", "K", "e", "y">>
K_orderId == <<"o", "r", "d", "e", "r", "I", "d">>
K_data == <<"d", "a", "t", "a">>
S_abc == <<"a", "b", "c">>
S_123 == <<"1", "2", "3">>

ResponseKeys ==
    { K_apiKey, K_orderId, K_note, K_instId,
      <<"A", "P", "I", "_", "S", "E", "C", "R", "E", "T">>,
      <<"p", "a", "s", "s", "p", "h", "r", "a", "s", "e">>,
      <<"r", "e", "f", "r", "e", "s", "h", "T", "o", "k", "e", "n">> }

ResponseValues ==
    { JStr(S_abc), JNum(7), JNull,
      JObj(<<KV(K_sz, JStr(S_abc))>>),
      JArr(<<JStr(S_abc), JObj(<<KV(K_apiKey, JStr(S_abc))>>)>>) }

\* where the mapping sits in the response: the response itself, the value
\* of a key, an item of a list, an item of a list in a list, or the value
\* of a key of a mapping in a list
ResponseShapes == {"top", "dict", "list", "listlist", "dictlistdict"}

Nested(shape, inner) ==
    CASE shape = "top" -> inner
      [] shape = "dict" -> JObj(<<KV(K_data, inner)>>)
      [] shape = "list" -> JObj(<<KV(K_data, JArr(<<JStr(S_abc), inner>>))>>)
      [] shape = "listlist" -> JObj(<<KV(K_data, JArr(<<JArr(<<inner>>)>>))>>)
      [] OTHER -> JObj(<<KV(K_data, JObj(<<KV(K_note, JArr(<<JObj(<<KV(K_side, inner)>>)>>))>>))>>)

Responses ==
    { Nested(shape, JObj(<<KV(k, v), KV(K_orderId, JStr(S_123))>>)) :
        shape \in ResponseShapes, k \in ResponseKeys, v \in ResponseValues }

InitSanitizeResponse ==
    /\ Quiet
    /\ call \in [response : Responses]
    /\ ret = NoRet

ApplySanitizeResponse ==
    /\ ret = NoRet
    /\ ret' = <<sanitize_response(call.response)>>
    /\ UNCHANGED <<hvars, call>>

SpecSanitizeResponse == InitSanitizeResponse /\ [][ApplySanitizeResponse]_vars

(* format_response, called twice: in one process or in two, at one clock  *)
(* reading or at two                                                       *)

FormatMessages ==
    { NoMessage,
      WebhookMessage(S_alice, JStr(S_hello), Timestamp(FilterNow, FALSE)),
      WebhookMessage(S_alice, OrderContent, Timestamp(FilterNow + 1, FALSE)),
      WebhookMessage(S_unknown, JStr(S_hello), Timestamp(FilterNow, FALSE)) }

FormatResponses ==
    { JNull, JObj(<<>>), JObj(<<KV(K_apiKey, JStr(S_abc)), KV(K_orderId, JStr(S_123))>>) }

FormatOutcomes == { [success |-> TRUE, error |-> ""], [success |-> FALSE, error |-> "m1"] }

\* clock readings at and after the message's timestamp
FormatTimes == {FilterNow + 1, FilterNow + 2}

\* the hash salts of two processes
FormatSalts == {"p1", "p2"}

FormatCalls ==
    [message : FormatMessages, okx_response : FormatResponses, outcome : FormatOutcomes,
     now : FormatTimes, salt : FormatSalts]

InitFormat == Quiet /\ call = NoCall /\ ret = NoRet

\* format_response(message, okx_response, success, error)
FormatResponse ==
    /\ Len(ret) < 2
    /\ \E c \in FormatCalls :
        /\ Len(call) = 1 => c.now >= call[1].now
        /\ call' = Append(call, c)
        /\ ret' = Append(ret, ResponseEnvelope(c.message, c.okx_response, c.outcome.success,
                                               c.outcome.error, c.now, c.salt))
    /\ UNCHANGED <<hvars>>

SpecFormat == InitFormat /\ [][FormatResponse]_vars

(* WebhookMessage(sender=..., content=...) built without a timestamp and  *)
(* filtered at once, the process having run for any time up to MaxUptime  *)

MaxUptime == 310

\* The timestamp of a message built at `now` without one: the default of
\* the field, `datetime.now()` evaluated when the class body ran, at the
\* import of models.py
DefaultTimestamp(imported, now) == Timestamp(imported, FALSE)

InitDefault ==
    /\ Quiet
    /\ call \in [imported : {FilterNow}, now : FilterNow..(FilterNow + MaxUptime),
                  sender : {S_alice}, content : {JStr(S_hello), OrderContent}]
    /\ ret = NoRet

ApplyDefault ==
    /\ ret = NoRet
    /\ LET m == WebhookMessage(call.sender, call.content,
                               DefaultTimestamp(call.imported, call.now))
       IN ret' = <<[message |-> m, filtered |-> filter_message(m, call.now)]>>
    /\ UNCHANGED <<hvars, call>>

SpecDefault == InitDefault /\ [][ApplyDefault]_vars

-----------------------------------------------------------------------------
(* Properties                                                              *)


\* the request passed both checks: the header is the digest of its body
\* under the configured secret and the filter accepted its message
PassedChecks(r) ==
    /\ settings.WEBHOOK_SECRET # ""
    /\ sig[r] = hexdigest(settings.WEBHOOK_SECRET, body[r].raw)
    /\ sigv[r] = "true"
    /\ filt[r] # <<>>
    /\ filt[r][1].valid

\* the request was turned away by the signature check or by the filter
Rejected(r) ==
    \/ sigv[r] \in {"false", "raise"}
    \/ filt[r] # <<>> /\ ~filt[r][1].valid

(* C1: a client is constructed and the exchange is called for a request   *)
(* only after its signature verification returned true and the filter     *)
(* returned is_valid = true; a rejected request has no client and no call. *)
C1_CallOnlyAfterChecks ==
    \A r \in Requests :
        /\ (client[r] # "none" \/ calls[r] > 0) => PassedChecks(r)
        /\ Rejected(r) => client[r] = "none" /\ calls[r] = 0

C1_Witness ==
    \E r, q \in Requests :
        /\ calls[r] > 0 /\ PassedChecks(r)
        /\ pc[q] = "done" /\ Rejected(q) /\ resp[q].code = 401

(* C2: validate_webhook_signature returns false when the secret is empty, *)
(* when the header is absent or empty, and when the header differs from   *)
(* the hex HMAC-SHA1 of the raw body; it returns true only when the       *)
(* header equals that HMAC.                                                *)
C2_SignatureVerdict ==
    ret # NoRet =>
        LET matches == /\ call.secret # ""
                       /\ call.signature = hexdigest(call.secret, call.body.raw)
        IN /\ (ret[1] = "true") => matches
           /\ ~matches => ret[1] = "false"

(* C3: for every k < max_retries, after k attempts that each failed with  *)
(* a network error, a transport error or a 429 the call goes on to        *)
(* attempt k+1, and if that attempt gets a response with code "0" the     *)
(* call returns it, having made exactly k+1 attempts.                      *)
C3_RetryThenSuccess ==
    \A r \in Requests :
        /\ (fails[r] = calls[r] /\ 0 < calls[r] /\ calls[r] < params.max_retries)
                => fwd[r].state = "none" /\ pc[r] \in {"sleep", "request"}
        /\ (last[r] = "ok" /\ fails[r] = calls[r] - 1)
                => /\ fwd[r].state = "returned"
                   /\ pc[r] \in {"close", "done"}
                   /\ calls[r] = attempt[r] + 1
                   /\ pc[r] = "done" => resp[r] = format_response(200, "result", TRUE, "")

C3_Witness ==
    \E r \in Requests :
        /\ params = [max_retries |-> max_retries, retry_delay |-> retry_delay]
        /\ last[r] = "ok" /\ fails[r] = 2 /\ calls[r] = 3
        /\ fwd[r].state = "returned" /\ pc[r] = "done"

\* what holds of a forward_message call at every moment
C4_Bounded ==
    \A r \in Requests :
        /\ calls[r] <= params.max_retries
        /\ (0 < calls[r] /\ fails[r] = calls[r] /\ calls[r] = params.max_retries)
                => fwd[r].state = "raised" /\ pc[r] = "done"
        /\ (fwd[r].state = "raised" /\ fails[r] = calls[r]) => calls[r] = params.max_retries
        /\ pc[r] = "done" /\ client[r] # "none" => fwd[r].state \in {"returned", "raised"}

(* C4: a call whose attempts all fail with a retryable failure raises an  *)
(* OKXAPIError after exactly max_retries attempts; every call makes at    *)
(* most max_retries attempts and ends with a result or an OKXAPIError.     *)
C4_ExhaustionAndTermination ==
    /\ []C4_Bounded
    /\ \A r \in Requests :
        (client[r] = "open" /\ fwd[r].state = "none") ~> (fwd[r].state \in {"returned", "raised"})

C4_Witness ==
    \E r \in Requests :
        /\ params.max_retries = max_retries
        /\ fails[r] = max_retries /\ calls[r] = max_retries
        /\ fwd[r].state = "raised" /\ pc[r] = "done"

(* C5: a 2xx response whose application code is not "0" is not retried:   *)
(* the call raises on the attempt that received it, with no backoff sleep *)
(* and no further attempt.                                                 *)
C5_ApplErrNotRetried ==
    \A r \in Requests :
        last[r] = "applErr"
            => /\ fwd[r].state = "raised"
               /\ pc[r] = "done"
               /\ Len(sleeps[r]) = calls[r] - 1

(* C6: an HTTP error status other than 429 is not retried: on whichever   *)
(* attempt it occurs it is raised at once as an OKXAPIError, that attempt *)
(* is the last of the call and no backoff sleep follows it.                *)
C6_HttpErrorNotRetried ==
    \A r \in Requests :
        last[r] = "httpErr"
            => /\ fwd[r] = [state |-> "raised", err |-> "HTTP error"]
               /\ pc[r] \notin {"sleep", "request"}
               /\ calls[r] = attempt[r] + 1
               /\ Len(sleeps[r]) = calls[r] - 1

C6_Witness ==
    \E r \in Requests :
        last[r] = "httpErr" /\ calls[r] = 2 /\ fwd[r].state = "raised" /\ pc[r] = "done"

(* C7: the sleep between the failed attempt with 0-based index i and      *)
(* attempt i+1 is retry_delay * 2^i; nothing is slept after the final or  *)
(* a successful attempt, so a call of n attempts sleeps                   *)
(* retry_delay * (2^(n-1) - 1) in all.                                     *)
C7_Backoff ==
    \A r \in Requests :
        /\ \A i \in 1..Len(sleeps[r]) : sleeps[r][i] = params.retry_delay * (2 ^ (i - 1))
        /\ pc[r] = "sleep" => Len(sleeps[r]) = calls[r] /\ last[r] # "ok"
        /\ pc[r] = "request" => Len(sleeps[r]) = calls[r]
        /\ (fwd[r].state # "none" /\ calls[r] > 0)
                => /\ Len(sleeps[r]) = calls[r] - 1
                   /\ SumSeq(sleeps[r]) = params.retry_delay * (2 ^ (calls[r] - 1) - 1)

C7_Witness ==
    \E r \in Requests :
        /\ fwd[r].state # "none" /\ calls[r] = 4
        /\ params.retry_delay = 2
        /\ sleeps[r] = <<2, 4, 8>>

(* C8: every client on which forward_message was invoked is closed before *)
(* the response of its request is returned, whether forward_message       *)
(* returned or raised.                                                     *)
C8_ClientClosed ==
    \A r \in Requests :
        (pc[r] = "done" /\ client[r] # "none") => client[r] = "closed"

KeysOf(c) == {c.pairs[i].k : i \in 1..Len(c.pairs)}

\* an object with all of instId, side and sz
IsOrder(c) == c.tag = "obj" /\ {K_instId, K_side, K_sz} \subseteq KeysOf(c)

\* an object with instId and type = "market_data"
IsMarketData(c) ==
    /\ c.tag = "obj"
    /\ K_instId \in KeysOf(c)
    /\ \E i \in 1..Len(c.pairs) : c.pairs[i] = KV(K_type, JStr(S_market_data))

(* C9: _determine_endpoint selects trade/order with the content as body   *)
(* if and only if the content is an object with all of instId, side and   *)
(* sz; otherwise market/ticker with only instId if it is an object with   *)
(* instId and type = "market_data"; otherwise market/tickers with instId  *)
(* BTC-USDT.  No non-object and no content lacking one of the three keys  *)
(* reaches the order endpoint.                                             *)
C9_EndpointRouting ==
    ret # NoRet =>
        LET c == call.content
            e == ret[1]
        IN /\ (e.endpoint = "trade/order") <=> IsOrder(c)
           /\ IsOrder(c) => e.data = c
           /\ (~IsOrder(c) /\ IsMarketData(c))
                => /\ e.endpoint = "market/ticker"
                   /\ \E i \in 1..Len(c.pairs) :
                        c.pairs[i].k = K_instId /\ e.data = JObj(<<c.pairs[i]>>)
           /\ (~IsOrder(c) /\ ~IsMarketData(c))
                => /\ e.endpoint = "market/tickers"
                   /\ e.data = JObj(<<KV(K_instId, JStr(S_BTC_USDT))>>)

C9_Witness ==
    /\ ret # NoRet
    /\ IsOrder(call.content) /\ IsMarketData(call.content)
    /\ ret[1].endpoint = "trade/order"
    /\ ret[1].data = call.content

FalsyValues == {JNull, JBool(FALSE), JNum(0), JStr(<<>>), JArr(<<>>), JObj(<<>>)}

\* the first of the four checks the message fails, with its reason
FirstFailure(m, now) ==
    IF m.sender = <<>> THEN <<"required", "Missing required field", "sender">>
    ELSE IF m.content \in FalsyValues THEN <<"required", "Missing required field", "content">>
    ELSE IF m.content.tag = "str" /\ Len(m.content.s) > 1000
    THEN <<"length", "Content exceeds maximum length", "">>
    ELSE IF m.timestamp.aware THEN <<"freshness", "Invalid message format", "">>
    ELSE IF now - m.timestamp.t > 300 THEN <<"freshness", "Message is too old", "">>
    ELSE IF contains_sensitive_info(PyStr(m.content))
    THEN <<"keyword", "Message contains sensitive information", "">>
    ELSE <<"none", "", "">>

(* C10: filter_message applies the required-field check (sender, then     *)
(* content), the length check, the freshness check and the keyword scan   *)
(* in this order and returns the reason of the first that fails; the      *)
(* content is sanitized only when all four pass; every call returns a     *)
(* (valid, reason, message) result and none raises.                        *)
C10_FilterOrder ==
    ret # NoRet =>
        LET m == call.message
            f == ret[1]
            first == FirstFailure(m, call.now)
        IN /\ f.valid \in BOOLEAN
           /\ f.valid <=> first[1] = "none"
           /\ f.reason = first[2] /\ f.field = first[3]
           /\ ~f.valid => f.message = NoMessage
           /\ f.valid => /\ f.message.sender = m.sender
                         /\ f.message.timestamp = m.timestamp
                         /\ f.message.content = sanitize_content(m.content)

C10_Witness ==
    /\ ret # NoRet
    /\ call.message.sender # <<>>
    /\ call.message.content.tag = "str"
    /\ Len(call.message.content.s) > max_content_length
    /\ contains_sensitive_info(call.message.content.s)
    /\ call.now - call.message.timestamp.t > max_message_age_minutes * SecondsPerMinute
    /\ ret[1] = [valid |-> FALSE, reason |-> "Content exceeds maximum length",
                 field |-> "", message |-> NoMessage]

\* the message passes the required-field and the length check
PassesEarlierChecks(m) ==
    /\ m.sender # <<>>
    /\ m.content \notin FalsyValues
    /\ ~(m.content.tag = "str" /\ Len(m.content.s) > 1000)

(* C11: with age = now - timestamp, a message that passes the required-   *)
(* field and length checks and is older than 5 minutes is rejected with   *)
(* the reason "Message is too old", and the age check passes for every    *)
(* message whose age is at most 5 minutes, 5 minutes exactly included.     *)
C11_Freshness ==
    ret # NoRet =>
        LET m == call.message
            f == ret[1]
            age == call.now - m.timestamp.t
        IN PassesEarlierChecks(m) =>
            /\ age > 300 => ~f.valid /\ f.reason = "Message is too old"
            /\ age <= 300 => f.reason \notin {"Message is too old", "Invalid message format"}

\* s holds a blocked keyword, each of its letters in either case
HoldsKeyword(s) ==
    \E k \in 1..Len(blocked_keywords) :
        \E i \in 0..(Len(s) - Len(blocked_keywords[k])) :
            \A j \in 1..Len(blocked_keywords[k]) :
                \/ s[i + j] = blocked_keywords[k][j]
                \/ s[i + j] \in UpperLetters /\ LowerOf[s[i + j]] = blocked_keywords[k][j]

\* the texts of a JSON value: its strings and the keys of its objects
RECURSIVE TextsOf(_)
TextsOf(v) ==
    CASE v.tag = "str" -> {v.s}
      [] v.tag = "arr" -> UNION {TextsOf(v.elems[i]) : i \in 1..Len(v.elems)}
      [] v.tag = "obj" ->
            {v.pairs[i].k : i \in 1..Len(v.pairs)}
                \cup UNION {TextsOf(v.pairs[i].v) : i \in 1..Len(v.pairs)}
      [] OTHER -> {}

(* C12: a message that passes the required-field, length and freshness    *)
(* checks and whose content holds a blocked keyword, in any letter case   *)
(* and at any position of a string, an object key or a nested value, is   *)
(* rejected with "Message contains sensitive information" and no          *)
(* processed message.                                                      *)
C12_KeywordRejects ==
    ret # NoRet =>
        LET m == call.message
            age == call.now - m.timestamp.t
        IN (/\ PassesEarlierChecks(m)
            /\ ~m.timestamp.aware /\ age <= 300
            /\ \E t \in TextsOf(m.content) : HoldsKeyword(t))
           => ret[1] = [valid |-> FALSE, reason |-> "Message contains sensitive information",
                        field |-> "", message |-> NoMessage]

C12_Witness ==
    /\ ret # NoRet
    /\ call.message.content.tag = "obj"
    /\ \E t \in TextsOf(call.message.content) :
            HoldsKeyword(t) /\ ~contains_sensitive_info_cased(t)
    /\ ret[1].reason = "Message contains sensitive information"
    /\ ret[1].message = NoMessage

(* C13: sanitize_content is idempotent: sanitizing the content it         *)
(* returned gives that content again, for strings and for strings nested  *)
(* in objects and arrays.                                                  *)
C13_Idempotent == Len(ret) = 2 => ret[2] = ret[1]

(* C14: in every string sanitize_content processes, a 16-digit sequence,  *)
(* contiguous or grouped in fours with '-' or ' ', is replaced by the     *)
(* marker whatever text surrounds it, a 40-character alphanumeric token   *)
(* is replaced by the marker, and a 10-character word is kept.             *)
C14_Redaction ==
    Len(ret) >= 1 =>
        LET out == Unshaped(call.shape, ret[1]).s
        IN /\ call.core.kind \in {"card", "token"}
                => ~Contains(out, call.core.text) /\ Contains(out, REDACTED)
           /\ call.core.kind = "word" => Contains(out, call.core.text)

(* C15: filter_message does not mutate the message it is given: after    *)
(* the call every object reachable from the original is as it was; an     *)
(* accepted result is a new message with the sender and the timestamp of  *)
(* the original and a content that shares no list and no dict with the    *)
(* content of the original.                                                *)
C15_NoMutationNoSharing ==
    ret # NoRet =>
        LET h == call.heap
            a == call.message
            g == ret[1].h
            b == ret[1].message
        IN /\ \A x \in Reach(h, a) : g[x] = h[x]
           /\ LoadMessage(g, a) = LoadMessage(h, a)
           /\ ret[1].valid =>
                /\ b \notin 1..Len(h)
                /\ g[b].tag = "msg"
                /\ LoadMessage(g, b).sender = LoadMessage(h, a).sender
                /\ LoadMessage(g, b).timestamp = LoadMessage(h, a).timestamp
                /\ LoadMessage(g, b).content = sanitize_content(LoadMessage(h, a).content)
                /\ \A x \in Reach(g, b) \cap Reach(h, a) : ~Mutable(g[x])

C15_Witness ==
    /\ ret # NoRet
    /\ ret[1].valid
    /\ \E x \in Reach(call.heap, call.message) :
            x # call.message /\ call.heap[x].tag = "obj"
    /\ \E x \in Reach(call.heap, call.message) : call.heap[x].tag = "arr"
    /\ LoadMessage(ret[1].h, ret[1].message).content
            # LoadMessage(call.heap, call.message).content

(* C16: handle_error maps an error to one status by its kind alone:       *)
(* Validation -> 400, Network -> 503, APIFailure -> 502, Security -> 401, *)
(* any other error -> 500 with the error name "InternalServerError",      *)
(* whatever the message, the context and the calls made before.            *)
C16_StatusByKind ==
    (ret # NoRet /\ call[1].fn = "handle_error") =>
        LET cls == call[1].error.cls
            e == ret[1]
        IN /\ cls = "ValidationError" => e.status_code = 400 /\ e.error = cls
           /\ cls = "NetworkError" => e.status_code = 503 /\ e.error = cls
           /\ cls = "APIError" => e.status_code = 502 /\ e.error = cls
           /\ cls = "SecurityError" => e.status_code = 401 /\ e.error = cls
           /\ cls \notin {"ValidationError", "NetworkError", "APIError", "SecurityError"}
                => e.status_code = 500 /\ e.error = "InternalServerError"

C16_Witness ==
    /\ ret # NoRet
    /\ call[1].fn = "handle_error"
    /\ call[1].error = Error("APIError", "m2")
    /\ call[1].context = "{'endpoint': 'OKX API'}"
    /\ ret[1].status_code = 502
    /\ alerts["APIError"] = 1 /\ classified["NetworkError"] = 3

(* C17: after any sequence of handle_error calls the counter of each of   *)
(* the four kinds is the number of classifications of that kind modulo 5, *)
(* so within 0..4, and the alerts of a kind are one for every fifth       *)
(* classification of that kind, the counter being zero right after.        *)
C17_Counters ==
    \A t \in {"ValidationError", "NetworkError", "APIError", "SecurityError"} :
        /\ error_counts[t] = classified[t] % 5
        /\ error_counts[t] \in 0..4
        /\ alerts[t] = classified[t] \div 5

C17_Witness ==
    /\ classified["SecurityError"] = 10
    /\ alerts["SecurityError"] = 2
    /\ error_counts["SecurityError"] = 0
    /\ ret # NoRet /\ call[1].fn = "handle_error" /\ ret[1].status_code = 401

(* C18: recover_from_error gives the "cached" envelope for a Network      *)
(* error, the "fallback" envelope for an APIFailure error and None for    *)
(* every other error; the response formatted from the outcome has status  *)
(* "success" exactly when a recovery was returned, "error" otherwise.      *)
C18_Recovery ==
    (ret # NoRet /\ call[1].fn = "recover_from_error") =>
        LET cls == call[1].error.cls
            r == ret[1]
        IN /\ cls = "NetworkError" => r.recovery = "cached"
           /\ cls = "APIError" => r.recovery = "fallback"
           /\ cls \notin {"NetworkError", "APIError"} => r.recovery = "none"
           /\ r.recovery # "none" => r.response.status = "success" /\ r.response.okx = r.recovery
           /\ r.recovery = "none" => r.response.status = "error"

C18_Witness ==
    /\ ret # NoRet
    /\ call[1].fn = "recover_from_error"
    /\ call[1].error.cls = "APIError"
    /\ ret[1].recovery = "fallback"
    /\ ret[1].response.status = "success"

SensitiveWords ==
    { <<"k", "e", "y">>, <<"s", "e", "c", "r", "e", "t">>,
      <<"p", "a", "s", "s", "w", "o", "r", "d">>, <<"t", "o", "k", "e", "n">>,
      <<"c", "r", "e", "d", "e", "n", "t", "i", "a", "l">>,
      <<"p", "a", "s", "s", "p", "h", "r", "a", "s", "e">> }

\* s holds the lowercase word w, each of its letters in either case
HoldsWord(s, w) ==
    \E i \in 0..(Len(s) - Len(w)) :
        \A j \in 1..Len(w) :
            \/ s[i + j] = w[j]
            \/ s[i + j] \in UpperLetters /\ LowerOf[s[i + j]] = w[j]

\* the value with the value of every sensitive key replaced, through
\* mappings and sequences nested to any depth
RECURSIVE FullyRedacted(_)
FullyRedacted(v) ==
    CASE v.tag = "obj" ->
            JObj([i \in 1..Len(v.pairs) |->
                    KV(v.pairs[i].k,
                       IF \E w \in SensitiveWords : HoldsWord(v.pairs[i].k, w)
                       THEN JStr(REDACTED)
                       ELSE FullyRedacted(v.pairs[i].v))])
      [] v.tag = "arr" -> JArr([i \in 1..Len(v.elems) |-> FullyRedacted(v.elems[i])])
      [] OTHER -> v

(* C19: sanitize_response returns the response with the marker as the     *)
(* value of every key whose lowercase form contains key, secret,          *)
(* password, token, credential or passphrase, whatever the value and at   *)
(* every depth through mappings and sequences, a mapping in a sequence in *)
(* a sequence included; every other key keeps its value.                   *)
C19_ResponseRedaction == ret # NoRet => ret[1] = FullyRedacted(call.response)

(* C20: the request_id is a function of the message's sender and          *)
(* timestamp: two format_response calls for the same message give the     *)
(* same request_id, at whatever clock readings and in whatever processes  *)
(* they are made.                                                          *)
C20_RequestIdOfMessage ==
    (Len(ret) = 2 /\ call[1].message = call[2].message)
        => ret[1].request_id = ret[2].request_id

(* C21: no response returned to the caller, on any path, contains the     *)
(* text of a raised exception; a failure response carries a fixed or      *)
(* categorized message only.                                               *)
C21_NoExceptionText ==
    \A r \in Requests : pc[r] = "done" => resp[r].exc = ""

(* C22: when any of API key, secret key and passphrase is empty the       *)
(* construction of the client raises before a connection pool exists: no  *)
(* client is open, no request is sent, and the webhook request is         *)
(* answered without an exchange call.                                      *)
C22_NoClientWithoutCredentials ==
    (settings.OKX_API_KEY = "" \/ settings.OKX_SECRET_KEY = "" \/ settings.OKX_PASSPHRASE = "")
        => \A r \in Requests :
            /\ client[r] = "none"
            /\ calls[r] = 0
            /\ pc[r] \in {"idle", "construct", "done"}
            /\ pc[r] = "done" => resp[r].code = 500 /\ fwd[r].state = "none"

C22_Witness ==
    \E r \in Requests :
        /\ settings.OKX_API_KEY # "" /\ settings.OKX_SECRET_KEY = "" /\ settings.OKX_PASSPHRASE # ""
        /\ PassedChecks(r)
        /\ pc[r] = "done" /\ resp[r].code = 500
        /\ client[r] = "none" /\ calls[r] = 0

(* C24: signature verification is the first step of the handler: a        *)
(* request whose signature verification fails is answered 401 whatever    *)
(* its body, a body that is not valid JSON or not a JSON object included.  *)
C24_SignatureFirst ==
    \A r \in Requests :
        (/\ pc[r] = "done"
         /\ \/ settings.WEBHOOK_SECRET = ""
            \/ sig[r] # hexdigest(settings.WEBHOOK_SECRET, body[r].raw))
            => resp[r].code = 401

(* C23: a message built without a timestamp has the time of its own      *)
(* construction as timestamp, so filtered at once it passes the freshness *)
(* check however long the process has been running.                        *)
C23_DefaultIsArrivalTime ==
    ret # NoRet =>
        /\ ret[1].message.timestamp = Timestamp(call.now, FALSE)
        /\ ret[1].filtered.reason # "Message is too old"

(* C25: when all max_retries attempts of a call have failed with          *)
(* retryable failures, the error raised is the "Max retries exceeded"     *)
(* error.                                                                  *)
C25_ExhaustionMessage ==
    \A r \in Requests :
        (/\ fwd[r].state = "raised"
         /\ 0 < calls[r] /\ fails[r] = calls[r] /\ calls[r] = params.max_retries)
            => fwd[r].err = "Max retries exceeded"

(* C26: tasks that classify errors of one counted kind on the shared      *)
(* ErrorHandler, resumed in any order: once k of them have run            *)
(* handle_error the counter of the kind is k modulo the threshold and k   *)
(* div the threshold alerts were logged, so no increment is lost; with    *)
(* all n done the counter is n mod 5 and the alerts floor(n / 5).          *)
Done == {c \in Classifiers : tasks[c] = "done"}

C27_UnrecognizedCounted ==
    /\ error_counts["InternalServerError"] = classified["InternalServerError"] % error_threshold
    /\ alerts["InternalServerError"] = classified["InternalServerError"] \div error_threshold

(* C28: requests interleave at their awaits and each has a client of its  *)
(* own.  While a request stays in its backoff sleep, the steps of the     *)
(* other requests leave its attempt index, its calls, its delays, its     *)
(* outcome and its client as they were; a request inside forward_message  *)
(* has its own client open whatever the others open or drop; and its      *)
(* delays, calls and response are those of the call run alone: the i-th   *)
(* delay is retry_delay * 2^(i-1), one call per index, and the response   *)
(* follows from its own forward_message.                                  *)
AsAlone(r) ==
    /\ \A i \in 1..Len(sleeps[r]) : sleeps[r][i] = params.retry_delay * (2 ^ (i - 1))
    /\ Len(sleeps[r]) = (IF pc[r] = "sleep" THEN calls[r] ELSE attempt[r])
    /\ pc[r] \in {"request", "sleep", "close"} => client[r] = "open"
    /\ pc[r] = "request" => calls[r] = attempt[r]
    /\ pc[r] = "sleep" => calls[r] = attempt[r] + 1 /\ fwd[r] = NoForward
    /\ (pc[r] = "done" /\ fwd[r].state = "returned") =>
            /\ resp[r] = format_response(200, "result", TRUE, "")
            /\ last[r] = "ok" /\ client[r] = "closed"
    /\ (pc[r] = "done" /\ fwd[r].state = "raised") => resp[r] = HandleForwardError(fwd[r].err)

C28_SleepingRequestUndisturbed ==
    [][\A r \in Requests :
            /\ AsAlone(r)'
            /\ (pc[r] = "sleep" /\ pc'[r] = "sleep") =>
                    /\ attempt'[r] = attempt[r] /\ calls'[r] = calls[r]
                    /\ sleeps'[r] = sleeps[r] /\ fails'[r] = fails[r]
                    /\ fwd'[r] = fwd[r] /\ client'[r] = client[r]
                    /\ sent'[r] = sent[r] /\ headers'[r] = headers[r]]_vars

C28_Witness ==
    \E r, q \in Requests :
        /\ r # q
        /\ pc[r] = "sleep" /\ calls[r] = 2 /\ client[r] = "open"
        /\ pc[q] = "done" /\ calls[q] = 1 /\ resp[q].code = 200 /\ client[q] = "closed"

(* C29: within one call the headers are computed once, before the first  *)
(* attempt: every attempt sends the same timestamp and the same           *)
(* signature, the timestamp is the reading of the clock at the start of   *)
(* the call, and at attempt i it is behind the clock by the delays slept  *)
(* so far, retry_delay * (2^(i-1) - 1).                                    *)
C29_HeadersComputedOnce ==
    \A r \in Requests :
        /\ Len(sent[r]) = calls[r]
        /\ \A i \in 1..Len(sent[r]) :
            LET h == sent[r][i].headers
            IN /\ h = Head(headers[r])
               /\ h.timestamp = sent[r][1].headers.timestamp
               /\ h.sign = sent[r][1].headers.sign
               /\ h.timestamp = FilterNow
               /\ h.sign.timestamp = FilterNow
               /\ sent[r][i].at - h.timestamp = params.retry_delay * (2 ^ (i - 1) - 1)

C29_Witness ==
    /\ Len(sent[Caller]) = 3
    /\ params.retry_delay = 2
    /\ sent[Caller][3].at = FilterNow + 6
    /\ sent[Caller][3].headers.timestamp = FilterNow
    /\ sent[Caller][3].headers.sign = sent[Caller][1].headers.sign

(* C30: every error forward_message raises is wrapped in an APIError and  *)
(* recovered: the response is 200 with status "success" and the           *)
(* "fallback" recovery; no response of the handler is a 502 or carries    *)
(* the "cached" recovery; and a request with a valid signature that       *)
(* passed the filter, the credentials being configured, is answered 200   *)
(* "success" whatever the outcomes of its client.request calls.            *)
C30_ForwardFailureRecovered ==
    \A r \in Requests :
        /\ (pc[r] = "done" /\ fwd[r].state = "raised") =>
                /\ resp[r].code = 200
                /\ resp[r].status = "success"
                /\ resp[r].okx = "fallback"
        /\ resp[r].code # 502
        /\ resp[r].okx # "cached"
        /\ (pc[r] = "done" /\ PassedChecks(r) /\ CredentialsConfigured(settings)) =>
                /\ resp[r].code = 200
                /\ resp[r].status = "success"

C30_Witness ==
    \E r \in Requests :
        /\ pc[r] = "done"
        /\ PassedChecks(r)
        /\ fwd[r].state = "raised"
        /\ calls[r] = params.max_retries /\ fails[r] = calls[r]
        /\ resp[r].code = 200 /\ resp[r].okx = "fallback"

(* C31: the handler stamps the message with the current time and does    *)
(* not read the timestamp of the payload: the message it filters carries  *)
(* the clock reading of its construction, and no request is rejected      *)
(* with "Message is too old", however old the timestamp of its payload.    *)
C31_PayloadTimestampIgnored ==
    \A r \in Requests :
        /\ filt[r] # <<>> =>
                /\ filt[r][1].reason # "Message is too old"
                /\ filt[r][1].valid => msg[r].timestamp = Timestamp(FilterNow, FALSE)
        /\ resp[r].detail # "Message is too old"

C31_Witness ==
    /\ HasKey(body[Caller].value, K_timestamp)
    /\ FilterNow - Get(body[Caller].value, K_timestamp).n
            > max_message_age_minutes * SecondsPerMinute
    /\ filt[Caller] # <<>>
    /\ filt[Caller][1].valid
    /\ msg[Caller].timestamp = Timestamp(FilterNow, FALSE)
    /\ pc[Caller] = "done"
    /\ resp[Caller].code = 200

=============================================================================
